---- MODULE Spec2Model ----
(***************************************************************************)
(* A model of the liquid-dsp binding layer: the wrappers around the native *)
(* library's objects.  The wrapper code is translated from src/; the       *)
(* native library the wrappers call (liquid_dsp_sys, named raw:: in the    *)
(* source) is not part of src/ and is modelled by the Native* operators.   *)
(*                                                                         *)
(* Several state machines share the module, each with its own               *)
(* specification:                                                          *)
(*   SpecCbuffer  CbufferRf / CbufferCf                 (src/src/cbuffer.rs)*)
(*   SpecAgc      AgcCrcf / AgcRrrf                     (src/src/agc.rs)    *)
(*   SpecHandle   handle ownership: create, use, recreate, drop            *)
(*   SpecBlock    execute_block and its relatives                          *)
(*   SpecCtor     the fallible constructors                                *)
(*   SpecScheme   the operations taking a CRC or FEC scheme                *)
(*   SpecRange    constructors and setters that assert a range             *)
(*   SpecDesign   the filter design functions and their argument checks    *)
(*   SpecComplex  the conversions of complex samples                       *)
(*   SpecEnum     the enumerations and their integer codes                 *)
(*   SpecFec      Fec::encode and Fec::decode with HAMMING74               *)
(*   SpecCallback the firdespm callback and a panic in it                  *)
(*   SpecPacketizer  Packetizer and the lengths of its buffers             *)
(*   SpecBorrow   shared and exclusive access to a wrapper's methods       *)
(*   SpecFirdespm the life of a Firdespm and of its callback box           *)
(***************************************************************************)
EXTENDS Integers, Sequences, FiniteSets, TLC

VARIABLES
    cbMax,      \* native cbuffer: max_size given to create
    cbElems,    \* native cbuffer: the stored samples, oldest first
    cbNum,      \* wrapper field num_elements
    cbLast,     \* the last Cbuffer method call: arguments, result, state before
    agcNat,     \* native agc object: bandwidth, gain, scale, lock, squelch
    agcLocked,  \* wrapper field is_locked
    agcLast,    \* the last Agc method call: argument, result, state before
    hState,     \* native library: each handle free (not yet created), live or dead
    hDestroys,  \* native library: how many times each handle has been destroyed
    hMisuse,    \* handles a native call received after they were destroyed
    w,          \* the wrapper object: its type, whether it is held, its inner handle
    hLast,      \* the last wrapper lifecycle call and the handle the native call returned
    call,       \* the last validating call: operation, arguments, result, native calls made
    blkKind,    \* the block operation of the object under test
    natSamples, \* native block object: samples it has processed
    yOut,       \* the caller's output slice after the last block call
    conv,       \* the last conversion: its input x, the converted c, the value y read back
    frames,     \* the call stack during Firdespm::execute, outermost frame first
    status,     \* the thread: running, unwinding a panic, aborted, exited or dead
    cbkCalls,   \* how many times the native design has called back in this execute
    cbkOut,     \* what the last callback handed to the native caller
    pkN,        \* Packetizer: wrapper field n
    pkNat,      \* Packetizer: the native object behind inner
    pkLast,     \* the last Packetizer call: lengths given, result, native calls made
    borrow,     \* one wrapper object: its type, each holder's access, who changed it
    bLast,      \* the last method called on it: by whom, with which access
    pm          \* one Firdespm: how it was built, its callback pointer, the box, the native object

cbVars == <<cbMax, cbElems, cbNum, cbLast>>

agcVars == <<agcNat, agcLocked, agcLast>>

hVars == <<hState, hDestroys, hMisuse, w, hLast>>

callVars == <<call, blkKind, natSamples, yOut, conv>>

cbkVars == <<frames, status, cbkCalls, cbkOut>>

pkVars == <<pkN, pkNat, pkLast>>

bVars == <<borrow, bLast>>

pmVars == <<pm>>

vars == <<cbMax, cbElems, cbNum, cbLast, agcNat, agcLocked, agcLast,
          hState, hDestroys, hMisuse, w, hLast, call, blkKind, natSamples, yOut,
          conv, frames, status, cbkCalls, cbkOut, pkN, pkNat, pkLast,
          borrow, bLast, pm>>

(***************************************************************************)
(* Bounds of the model.                                                    *)
(***************************************************************************)
MaxSize == 3        \* largest max_size given to Cbuffer::create
NumSamples == 2     \* distinct sample values
MaxCount == 7       \* cap on the wrapper counter num_elements (a u32 in the code)
MaxHandles == 4     \* native objects the library creates in one run
MaxBlock == 2       \* longest slice given to a block operation
MaxProcessed == 4   \* cap on the samples a native block object processes
MaxLen == 2         \* longest coefficient slice / largest count given to a constructor
MaxBands == 1       \* largest num_bands given to Firdespm

Samples == 1..NumSamples

SeqsUpTo(S, n) == UNION {[1..k -> S] : k \in 0..n}

Min(a, b) == IF a < b THEN a ELSE b

DropFirst(s, n) == SubSeq(s, n + 1, Len(s))

(***************************************************************************)
(* The native circular buffer (liquid-dsp cbufferf / cbuffercf).  Every    *)
(* native function checks its own precondition, prints a warning and       *)
(* returns without effect when it is violated.                             *)
(***************************************************************************)
NativeSize(elems) == Len(elems)

NativeSpaceAvailable(elems, max) == max - Len(elems)

NativePush(elems, max, v) ==
    IF Len(elems) = max THEN elems ELSE Append(elems, v)

NativeWrite(elems, max, buf) ==
    IF Len(buf) > max - Len(elems) THEN elems ELSE elems \o buf

NativeRelease(elems, n) ==
    IF n > Len(elems) THEN elems ELSE DropFirst(elems, n)

NativePop(elems) ==
    IF Len(elems) = 0 THEN elems ELSE DropFirst(elems, 1)

NativeReset(elems) == << >>

\* cbufferf_read(q, max_read, &v, &nr): at most max_read elements, at most
\* the elements held, at most the object's max_read (max_size after create).
NativeRead(elems, max, n) == SubSeq(elems, 1, Min(n, Min(Len(elems), max)))

(***************************************************************************)
(* The wrapper methods.  Each returns the call's outcome: the new wrapper  *)
(* counter, the new native contents, the result and whether the native     *)
(* function was called.                                                    *)
(***************************************************************************)
CbOut(num, elems, res, err, called, ret) ==
    [num |-> num, elems |-> elems, res |-> res, err |-> err,
     called |-> called, ret |-> ret]

ErrNoSpace == "warning: no space available"
ErrCannotWrite == "cannot write more elements than are available"
ErrEmptyBuffer == "Buffer is already empty"

CbPush(num, elems, max, v) ==
    IF num = max
    THEN CbOut(num, elems, "Err", ErrNoSpace, FALSE, << >>)
    ELSE CbOut(num + 1, NativePush(elems, max, v), "Ok", "", TRUE, << >>)

CbWrite(num, elems, max, buf) ==
    IF Len(buf) > NativeSpaceAvailable(elems, max)
    THEN CbOut(num, elems, "Err", ErrCannotWrite, FALSE, << >>)
    ELSE CbOut(num + Len(buf), NativeWrite(elems, max, buf), "Ok", "", TRUE, << >>)

CbPop(num, elems, max) ==
    IF num = 0
    THEN CbOut(num, elems, "None", "", FALSE, << >>)
    ELSE CbOut(num - 1, NativePop(elems), "Some", "", TRUE,
               \* out keeps its default when the native buffer is empty
               IF Len(elems) = 0 THEN <<0>> ELSE <<Head(elems)>>)

CbRelease(num, elems, max, n) ==
    IF n > num
    THEN CbOut(num, elems, "Err", ErrEmptyBuffer, FALSE, << >>)
    ELSE CbOut(num, NativeRelease(elems, n), "Ok", "", TRUE, << >>)

CbReset(num, elems, max) ==
    CbOut(num, NativeReset(elems), "Ok", "", TRUE, << >>)

CbRead(num, elems, max) ==
    CbOut(num, elems, "Ok", "", TRUE, NativeRead(elems, max, num))

CbSpaceAvailable(num, elems, max) ==
    CbOut(num, elems, "Ok", "", TRUE, <<NativeSpaceAvailable(elems, max)>>)

(***************************************************************************)
(* The Cbuffer state machine.                                              *)
(***************************************************************************)
CbCall(op, buf, n, out) ==
    /\ out.num <= MaxCount
    /\ cbLast' = [op |-> op, buf |-> buf, n |-> n, res |-> out.res,
                  err |-> out.err, called |-> out.called, ret |-> out.ret,
                  pre |-> cbElems, preNum |-> cbNum]
    /\ cbNum' = out.num
    /\ cbElems' = out.elems
    /\ UNCHANGED <<cbMax, agcVars, hVars, callVars, cbkVars, pkVars, bVars, pmVars>>

\* Cbuffer::create(max_size)
CbInit ==
    /\ cbMax \in 1..MaxSize
    /\ cbElems = << >>
    /\ cbNum = 0
    /\ cbLast = [op |-> "create", buf |-> << >>, n |-> 0, res |-> "Ok",
                 err |-> "", called |-> TRUE, ret |-> << >>,
                 pre |-> << >>, preNum |-> 0]

Push ==
    /\ \E v \in Samples :
        CbCall("push", <<v>>, 0, CbPush(cbNum, cbElems, cbMax, v))

Write ==
    /\ \E buf \in SeqsUpTo(Samples, MaxSize + 1) :
        CbCall("write", buf, 0, CbWrite(cbNum, cbElems, cbMax, buf))

Pop == CbCall("pop", << >>, 0, CbPop(cbNum, cbElems, cbMax))

Release ==
    /\ \E n \in 0..(MaxCount + 1) :
        CbCall("release", << >>, n, CbRelease(cbNum, cbElems, cbMax, n))

Reset == CbCall("reset", << >>, 0, CbReset(cbNum, cbElems, cbMax))

Read == CbCall("read", << >>, 0, CbRead(cbNum, cbElems, cbMax))

space_available ==
    CbCall("space_available", << >>, 0, CbSpaceAvailable(cbNum, cbElems, cbMax))

CbNext == Push \/ Write \/ Pop \/ Release \/ Reset \/ Read \/ space_available

(***************************************************************************)
(* f32 values.  A finite value is kept in hundredths (F(50) is 0.5); NaN   *)
(* is a value of its own, and every comparison with NaN is false.          *)
(***************************************************************************)
F(v) == [nan |-> FALSE, v |-> v]

NaN == [nan |-> TRUE, v |-> 0]

FLt(a, b) == ~a.nan /\ ~b.nan /\ a.v < b.v

FLe(a, b) == ~a.nan /\ ~b.nan /\ a.v <= b.v

FGt(a, b) == ~a.nan /\ ~b.nan /\ a.v > b.v

FGe(a, b) == ~a.nan /\ ~b.nan /\ a.v >= b.v

\* -0.5, 0, 0.01, 0.5, 1, 2 and NaN
FloatArgs == {F(v) : v \in {-50, 0, 1, 50, 100, 200}} \cup {NaN}

\* 1/x for the finite values used here (exact on them)
Recip(x) == IF x.nan \/ x.v = 0 THEN NaN ELSE F(10000 \div x.v)

(***************************************************************************)
(* The native agc object (liquid-dsp agc_crcf / agc_rrrf).  The gain g     *)
(* carries the signal level (1/g) and the rssi (-20 log10 g, in dB).       *)
(***************************************************************************)
RssiArgs == {F(-2000), F(0), F(2000), NaN}

GainOfRssi(r) ==
    IF r.nan THEN NaN
    ELSE CASE r.v = -2000 -> F(1000) [] r.v = 0 -> F(100) [] r.v = 2000 -> F(10)
           [] OTHER -> NaN

RssiOfGain(g) ==
    IF g.nan THEN NaN
    ELSE CASE g.v = 1 -> F(4000) [] g.v = 10 -> F(2000) [] g.v = 50 -> F(602)
           [] g.v = 100 -> F(0) [] g.v = 200 -> F(-602) [] g.v = 1000 -> F(-2000)
           [] g.v = 10000 -> F(-4000) [] OTHER -> NaN

NativeAgcCreate ==
    [bandwidth |-> F(1), g |-> F(100), scale |-> F(100),
     locked |-> FALSE, squelch |-> FALSE]

NativeAgcReset(nat) == [nat EXCEPT !.g = F(100), !.locked = FALSE]

NativeAgcLock(nat) == [nat EXCEPT !.locked = TRUE]

NativeAgcUnlock(nat) == [nat EXCEPT !.locked = FALSE]

NativeAgcSetBandwidth(nat, b) == [nat EXCEPT !.bandwidth = b]

NativeAgcSetSignalLevel(nat, level) == [nat EXCEPT !.g = Recip(level)]

NativeAgcSetRssi(nat, rssi) == [nat EXCEPT !.g = GainOfRssi(rssi)]

NativeAgcSetGain(nat, gain) == [nat EXCEPT !.g = gain]

NativeAgcSetScale(nat, scale) == [nat EXCEPT !.scale = scale]

\* the gains the loop can settle on
LoopGains == {F(10), F(50), F(100), F(200), F(1000)}

\* agc_execute: the loop adapts the gain unless the object is locked
NativeAgcExecute(nat, g) == IF nat.locked THEN nat ELSE [nat EXCEPT !.g = g]

\* agc_init: sets the signal level from the samples' energy
NativeAgcInit(nat, g) == [nat EXCEPT !.g = g]

NativeAgcSquelch(nat, on) == [nat EXCEPT !.squelch = on]

(***************************************************************************)
(* The wrapper's getters and methods.                                      *)
(***************************************************************************)
AgcGetBandwidth(nat) == nat.bandwidth

AgcGetSignalLevel(nat) == Recip(nat.g)

AgcGetRssi(nat) == RssiOfGain(nat.g)

AgcGetGain(nat) == nat.g

AgcGetScale(nat) == nat.scale

AgcGetters(nat) ==
    [bandwidth |-> AgcGetBandwidth(nat), signal_level |-> AgcGetSignalLevel(nat),
     rssi |-> AgcGetRssi(nat), gain |-> AgcGetGain(nat), scale |-> AgcGetScale(nat)]

AgcOut(nat, locked, res, err, called) ==
    [nat |-> nat, locked |-> locked, res |-> res, err |-> err, called |-> called]

AgcInitSamples(nat, locked, n, g) ==
    IF n = 0
    THEN AgcOut(nat, locked, "Err", "InvalidValue", FALSE)
    ELSE AgcOut(NativeAgcInit(nat, g), locked, "Ok", "", TRUE)

AgcReset(nat, locked) == AgcOut(NativeAgcReset(nat), locked, "Ok", "", TRUE)

AgcLock(nat, locked) == AgcOut(NativeAgcLock(nat), TRUE, "Ok", "", TRUE)

AgcUnlock(nat, locked) == AgcOut(NativeAgcUnlock(nat), FALSE, "Ok", "", TRUE)

AgcSetBandwidth(nat, locked, b) ==
    IF FLt(b, F(0)) \/ FGt(b, F(100))
    THEN AgcOut(nat, locked, "Err", "InvalidValue", FALSE)
    ELSE AgcOut(NativeAgcSetBandwidth(nat, b), locked, "Ok", "", TRUE)

AgcSetSignalLevel(nat, locked, level) ==
    IF FLe(level, F(0))
    THEN AgcOut(nat, locked, "Err", "InvalidValue", FALSE)
    ELSE AgcOut(NativeAgcSetSignalLevel(nat, level), locked, "Ok", "", TRUE)

AgcSetRssi(nat, locked, rssi) ==
    AgcOut(NativeAgcSetRssi(nat, rssi), locked, "Ok", "", TRUE)

AgcSetGain(nat, locked, gain) ==
    IF FLe(gain, F(0))
    THEN AgcOut(nat, locked, "Err", "InvalidValue", FALSE)
    ELSE AgcOut(NativeAgcSetGain(nat, gain), locked, "Ok", "", TRUE)

AgcSetScale(nat, locked, scale) ==
    IF FLe(scale, F(0))
    THEN AgcOut(nat, locked, "Err", "InvalidValue", FALSE)
    ELSE AgcOut(NativeAgcSetScale(nat, scale), locked, "Ok", "", TRUE)

AgcSquelch(nat, locked, on) ==
    AgcOut(NativeAgcSquelch(nat, on), locked, "Ok", "", TRUE)

AgcExecute(nat, locked, g) ==
    AgcOut(NativeAgcExecute(nat, g), locked, "Ok", "", TRUE)

\* the value Debug prints after "locked:"
AgcDebugLocked(locked) == IF locked THEN "yes" ELSE "no"

(***************************************************************************)
(* The Agc state machine.                                                  *)
(***************************************************************************)
AgcCall(op, arg, out) ==
    /\ agcLast' = [op |-> op, arg |-> arg, res |-> out.res, err |-> out.err,
                   called |-> out.called, pre |-> agcNat, preLocked |-> agcLocked]
    /\ agcNat' = out.nat
    /\ agcLocked' = out.locked
    /\ UNCHANGED <<cbVars, hVars, callVars, cbkVars, pkVars, bVars, pmVars>>

\* Agc::create()
AgcInit ==
    /\ agcNat = NativeAgcCreate
    /\ agcLocked = FALSE
    /\ agcLast = [op |-> "create", arg |-> F(0), res |-> "Ok", err |-> "",
                  called |-> TRUE, pre |-> NativeAgcCreate, preLocked |-> FALSE]

init ==
    /\ \E n \in 0..1, g \in LoopGains :
        AgcCall("init", F(n), AgcInitSamples(agcNat, agcLocked, n, g))

reset == AgcCall("reset", F(0), AgcReset(agcNat, agcLocked))

lock == AgcCall("lock", F(0), AgcLock(agcNat, agcLocked))

unlock == AgcCall("unlock", F(0), AgcUnlock(agcNat, agcLocked))

set_bandwidth ==
    /\ \E b \in FloatArgs :
        AgcCall("set_bandwidth", b, AgcSetBandwidth(agcNat, agcLocked, b))

set_signal_level ==
    /\ \E level \in FloatArgs :
        AgcCall("set_signal_level", level, AgcSetSignalLevel(agcNat, agcLocked, level))

set_rssi ==
    /\ \E rssi \in RssiArgs :
        AgcCall("set_rssi", rssi, AgcSetRssi(agcNat, agcLocked, rssi))

set_gain ==
    /\ \E gain \in FloatArgs :
        AgcCall("set_gain", gain, AgcSetGain(agcNat, agcLocked, gain))

set_scale ==
    /\ \E scale \in FloatArgs :
        AgcCall("set_scale", scale, AgcSetScale(agcNat, agcLocked, scale))

squelch_enable == AgcCall("squelch_enable", F(0), AgcSquelch(agcNat, agcLocked, TRUE))

squelch_disable == AgcCall("squelch_disable", F(0), AgcSquelch(agcNat, agcLocked, FALSE))

execute ==
    /\ \E g \in LoopGains :
        AgcCall("execute", F(0), AgcExecute(agcNat, agcLocked, g))

AgcNext ==
    \/ init \/ reset \/ lock \/ unlock
    \/ set_bandwidth \/ set_signal_level \/ set_rssi \/ set_gain \/ set_scale
    \/ squelch_enable \/ squelch_disable \/ execute

(***************************************************************************)
(* Handle ownership.  The native library hands out handles; a wrapper      *)
(* keeps one in its field inner, passes it to every native call and        *)
(* destroys it in Drop.                                                    *)
(***************************************************************************)
Handles == 1..MaxHandles

\* the native side: allocation state, destroy counts, misused handles
Nat3(st, ds, mis) == [st |-> st, ds |-> ds, mis |-> mis]

FreeHandles(st) == {h \in Handles : st[h] = "free"}

\* xxx_create: a new object
NativeCreate(n, h) == Nat3([n.st EXCEPT ![h] = "live"], n.ds, n.mis)

\* any native call taking the handle as its first argument
NativeUse(n, h) ==
    Nat3(n.st, n.ds, IF n.st[h] = "live" THEN n.mis ELSE n.mis \cup {h})

\* xxx_destroy
NativeDestroy(n, h) ==
    Nat3([n.st EXCEPT ![h] = "dead"], [n.ds EXCEPT ![h] = @ + 1],
         IF n.st[h] = "live" THEN n.mis ELSE n.mis \cup {h})

\* xxx_recreate(q, ...) returning ret: the object passed in when it is kept,
\* or a new object created after the one passed in has been destroyed.
NativeRecreate(n, h, ret) ==
    IF ret = h THEN NativeUse(n, h) ELSE NativeCreate(NativeDestroy(n, h), ret)

RecreateKinds == {"Fec", "Packetizer", "FirFilt"}

WrapperKinds == RecreateKinds \cup {"Agc"}

HOut(n, wr, res, ret) == [n |-> n, wr |-> wr, res |-> res, ret |-> ret]

Dropped(wr) == [wr EXCEPT !.state = "dropped"]

\* impl Drop: xxx_destroy(self.inner)
WrapperDrop(n, wr) == HOut(NativeDestroy(n, wr.inner), Dropped(wr), "Ok", 0)

\* Fec::create, Packetizer::create, Agc::create: infallible;
\* FirFilt::create(h): rejects an empty coefficient slice before the native call
WrapperCreate(n, kind, hlen, h) ==
    IF kind = "FirFilt" /\ hlen = 0
    THEN HOut(n, [kind |-> kind, state |-> "none", inner |-> 0], "Err", 0)
    ELSE HOut(NativeCreate(n, h), [kind |-> kind, state |-> "held", inner |-> h],
              "Ok", h)

\* a method call: forwards self.inner to the native function
WrapperUse(n, wr) == HOut(NativeUse(n, wr.inner), wr, "Ok", 0)

\* Fec::recreate(mut self, scheme) and Packetizer::recreate(mut self, ...):
\* self.inner = raw::xxx_recreate(self.inner, ...); self
RecreateStoring(n, wr, ret) ==
    HOut(NativeRecreate(n, wr.inner, ret), [wr EXCEPT !.inner = ret], "Ok", ret)

\* FirFilt::recreate(self, h): an empty slice returns Err and self is dropped;
\* otherwise raw::firfilt_xxx_recreate(self.inner, ...); Ok(self)
RecreateFirFilt(n, wr, hlen, ret) ==
    IF hlen = 0
    THEN [WrapperDrop(n, wr) EXCEPT !.res = "Err"]
    ELSE HOut(NativeRecreate(n, wr.inner, ret), wr, "Ok", ret)

WrapperRecreate(n, wr, hlen, ret) ==
    IF wr.kind = "FirFilt"
    THEN RecreateFirFilt(n, wr, hlen, ret)
    ELSE RecreateStoring(n, wr, ret)

(***************************************************************************)
(* The ownership state machine: one wrapper object at a time.              *)
(***************************************************************************)
HNative == Nat3(hState, hDestroys, hMisuse)

HCall(op, out) ==
    /\ hLast' = [op |-> op, kind |-> out.wr.kind, res |-> out.res,
                 ret |-> out.ret, old |-> w.inner]
    /\ hState' = out.n.st
    /\ hDestroys' = out.n.ds
    /\ hMisuse' = out.n.mis
    /\ w' = out.wr
    /\ UNCHANGED <<cbVars, agcVars, callVars, cbkVars, pkVars, bVars, pmVars>>

HInit ==
    /\ hState = [h \in Handles |-> "free"]
    /\ hDestroys = [h \in Handles |-> 0]
    /\ hMisuse = {}
    /\ w = [kind |-> "Agc", state |-> "none", inner |-> 0]
    /\ hLast = [op |-> "none", kind |-> "Agc", res |-> "Ok", ret |-> 0, old |-> 0]

Create ==
    /\ w.state # "held"
    /\ \E kind \in WrapperKinds, hlen \in 0..1, h \in FreeHandles(hState) :
          HCall("create", WrapperCreate(HNative, kind, hlen, h))

Use ==
    /\ w.state = "held"
    /\ HCall("use", WrapperUse(HNative, w))

Recreate ==
    /\ w.state = "held"
    /\ w.kind \in RecreateKinds
    /\ \E hlen \in 0..1, ret \in {w.inner} \cup FreeHandles(hState) :
          HCall("recreate", WrapperRecreate(HNative, w, hlen, ret))

Drop ==
    /\ w.state = "held"
    /\ HCall("drop", WrapperDrop(HNative, w))

HNext == Create \/ Use \/ Recreate \/ Drop

(***************************************************************************)
(* One call of a wrapper operation: its result and the native calls it     *)
(* made, in order.  A native call records the scheme codes it was given.   *)
(***************************************************************************)
NativeCall(fn, crc, fec) == [fn |-> fn, crc |-> crc, fec |-> fec]

Plain(fn) == NativeCall(fn, << >>, << >>)

CallOut(res, native, box) == [res |-> res, native |-> native, box |-> box]

\* return Err(LiquidError::...)
Err == CallOut("Err", << >>, FALSE)

\* a failed assert!: the call unwinds
Panic == CallOut("Panic", << >>, FALSE)

Ok(native) == CallOut("Ok", native, FALSE)

(***************************************************************************)
(* Block operations: execute_block(x, y) and its relatives.                *)
(***************************************************************************)
BlockKinds ==
    {"AgcCrcf::execute_block", "ChannelCccf::execute_block",
     "TvmpchCccf::execute_block", "FirFiltRrrf::execute_block",
     "IirFiltRrrf::execute_block", "FirInterpRrrf::execute_block",
     "FftFiltRrrf::execute", "AmpModem::modulate_block",
     "AmpModem::demodulate_block"}

AutocorrKind == "AutocorrCccf::execute_block"

ZeroBuf(k) == [i \in 1..k |-> 0]

\* the samples the native object writes for the input x
NativeBlock(x) == [i \in 1..Len(x) |-> NumSamples + 1 - x[i]]

BlockOut(out, y, n) == [out |-> out, y |-> y, n |-> n]

\* a variant without the length assertion: the native call is made on x.len()
\* samples whatever the length of y
ExecuteBlockUnasserted(op, x, y, n) ==
    BlockOut(Ok(<<Plain(op)>>),
             [i \in 1..Len(y) |-> IF i <= Len(x) THEN NativeBlock(x)[i] ELSE y[i]],
             n + Len(x))

\* assert!(x.len() == y.len()); raw::xxx_execute_block(self.inner, x, x.len(), y)
ExecuteBlock(op, x, y, n) ==
    IF Len(x) # Len(y)
    THEN BlockOut(Panic, y, n)
    ELSE BlockOut(Ok(<<Plain(op)>>), NativeBlock(x), n + Len(x))

\* AutocorrXxx::execute_block: the assert, then per sample self.push and execute
AutocorrExecuteBlock(x, y, n) ==
    IF Len(x) # Len(y)
    THEN BlockOut(Panic, y, n)
    ELSE BlockOut(Ok([i \in 1..(2 * Len(x)) |->
                         IF i % 2 = 1 THEN Plain("autocorr_cccf_push")
                                      ELSE Plain("autocorr_cccf_execute")]),
                  NativeBlock(x), n + Len(x))

BlockCall(op, x, y, r) ==
    /\ r.n <= MaxProcessed
    /\ call' = [op |-> op, args |-> <<x, y>>, res |-> r.out.res,
                native |-> r.out.native, box |-> r.out.box, pre |-> natSamples]
    /\ natSamples' = r.n
    /\ yOut' = r.y
    /\ UNCHANGED <<blkKind, conv, cbVars, agcVars, hVars, cbkVars, pkVars, bVars, pmVars>>

CallInit ==
    /\ call = [op |-> "none", args |-> << >>, res |-> "Ok", native |-> << >>,
               box |-> FALSE, pre |-> 0]
    /\ blkKind \in BlockKinds \cup {AutocorrKind}
    /\ natSamples = 0
    /\ yOut = << >>
    /\ conv = [op |-> "none", x |-> << >>, c |-> << >>, y |-> << >>]

execute_block ==
    /\ blkKind \in BlockKinds
    /\ \E x \in SeqsUpTo(Samples, MaxBlock), k \in 0..MaxBlock :
          BlockCall(blkKind, x, ZeroBuf(k),
                    ExecuteBlock(blkKind, x, ZeroBuf(k), natSamples))

autocorr_execute_block ==
    /\ blkKind = AutocorrKind
    /\ \E x \in SeqsUpTo(Samples, MaxBlock), k \in 0..MaxBlock :
          BlockCall(blkKind, x, ZeroBuf(k),
                    AutocorrExecuteBlock(x, ZeroBuf(k), natSamples))

BlockNext == execute_block \/ autocorr_execute_block

(***************************************************************************)
(* Fallible constructors.  Slices are given by their lengths.              *)
(***************************************************************************)
Created(fn) == Ok(<<Plain(fn)>>)

\* Cvsd::create(num_bits, zeta, alpha)
CvsdCreate(num_bits, zeta, alpha) ==
    IF num_bits = 0 THEN Err
    ELSE IF FLe(zeta, F(100)) THEN Err
    ELSE IF FLt(alpha, F(0)) \/ FGt(alpha, F(100)) THEN Err
    ELSE Created("cvsd_create")

\* FirFiltRrrf::create(h) (Crcf and Cccf alike)
FirFiltCreate(hlen) ==
    IF hlen = 0 THEN Err ELSE Created("firfilt_rrrf_create")

\* IirFiltRrrf::create(a, b)
IirFiltCreate(alen, blen) ==
    IF blen = 0 THEN Err
    ELSE IF alen = 0 THEN Err
    ELSE Created("iirfilt_rrrf_create")

\* IirFilt*::create_lowpass(n, fc)
IirFiltCreateLowpass(n, fc) ==
    IF FLe(fc, F(0)) \/ FGe(fc, F(50)) THEN Err
    ELSE IF n = 0 THEN Err
    ELSE Created("iirfilt_rrrf_create_lowpass")

\* IirFilt*::create_prototype(ftype, btype, format, order, fc, f0, ap, as_)
IirFiltCreatePrototype(order, fc, f0, ap, as_) ==
    IF FLe(fc, F(0)) \/ FGe(fc, F(50)) THEN Err
    ELSE IF FLt(f0, F(0)) \/ FGt(f0, F(50)) THEN Err
    ELSE IF FLe(ap, F(0)) THEN Err
    ELSE IF FLe(as_, F(0)) THEN Err
    ELSE IF order = 0 THEN Err
    ELSE Created("iirfilt_rrrf_create_prototype")

\* IirFiltRrrf::create_sos(a, b, nsos)
IirFiltCreateSos(alen, blen, nsos) ==
    IF alen # blen THEN Err
    ELSE IF alen = 0 \/ alen < 3 * nsos THEN Err
    ELSE Created("iirfilt_rrrf_create_sos")

\* FftFiltRrrf::create(h, n)
FftFiltCreate(hlen, n) ==
    IF hlen = 0 THEN Err
    ELSE IF n < hlen - 1 THEN Err
    ELSE Created("fftfilt_rrrf_create")

\* FirInterp*::create(m, h)
FirInterpCreate(m, hlen) ==
    IF m < 2 THEN Err
    ELSE IF hlen < m THEN Err
    ELSE Created("firinterp_rrrf_create")

\* Asgram*::create(nfft)
AsgramCreate(nfft) ==
    IF nfft < 2 THEN Err ELSE Created("asgram_create")

\* Firdespm::validate_inputs_length; wtype is the length of the slice, or -1
\* for None
ValidateInputsLength(num_bands, bands, des, weights, wtype) ==
    IF bands = 0 \/ bands \div 2 # num_bands
    THEN FALSE
    ELSE LET invalid ==
                 IF wtype >= 0
                 THEN num_bands # des \/ num_bands # wtype
                          \/ num_bands # weights \/ num_bands # wtype
                 ELSE num_bands # des \/ num_bands # weights
         IN  ~invalid

\* Firdespm::create
FirdespmCreate(num_bands, bands, des, weights, wtype) ==
    IF ~ValidateInputsLength(num_bands, bands, des, weights, wtype)
    THEN Err
    ELSE Created("firdespm_create")

\* Firdespm::run
FirdespmRun(num_bands, bands, des, weights, wtype) ==
    IF ~ValidateInputsLength(num_bands, bands, des, weights, wtype)
    THEN Err
    ELSE Created("firdespm_run")

\* a variant that boxes the callback before checking the lengths
FirdespmCreateCallbackBoxFirst(num_bands, bands) ==
    IF num_bands = 0 \/ num_bands # bands \div 2
    THEN CallOut("Err", << >>, TRUE)
    ELSE CallOut("Ok", <<Plain("firdespm_create_callback")>>, TRUE)

\* Firdespm::create_callback: the check, then Box::into_raw, then the native call
FirdespmCreateCallback(num_bands, bands) ==
    IF num_bands = 0 \/ num_bands # bands \div 2
    THEN Err
    ELSE CallOut("Ok", <<Plain("firdespm_create_callback")>>, TRUE)

Lens == 0..MaxLen

FewFloats == {F(0), F(1), F(200), NaN}

\* a call that touches no block object
PlainCall(op, args, out) ==
    /\ call' = [op |-> op, args |-> args, res |-> out.res,
                native |-> out.native, box |-> out.box, pre |-> natSamples]
    /\ UNCHANGED <<blkKind, natSamples, yOut, conv, cbVars, agcVars, hVars, cbkVars, pkVars, bVars, pmVars>>

Cvsd_create ==
    /\ \E num_bits \in Lens, zeta \in FloatArgs, alpha \in FloatArgs :
        PlainCall("Cvsd::create", <<num_bits, zeta, alpha>>,
                  CvsdCreate(num_bits, zeta, alpha))

FirFilt_create ==
    /\ \E hlen \in Lens :
        PlainCall("FirFiltRrrf::create", <<hlen>>, FirFiltCreate(hlen))

IirFilt_create ==
    /\ \E alen \in Lens, blen \in Lens :
        PlainCall("IirFiltRrrf::create", <<alen, blen>>, IirFiltCreate(alen, blen))

IirFilt_create_lowpass ==
    /\ \E n \in Lens, fc \in FloatArgs :
        PlainCall("IirFiltRrrf::create_lowpass", <<n, fc>>,
                  IirFiltCreateLowpass(n, fc))

IirFilt_create_prototype ==
    /\ \E order \in 0..1, fc \in FewFloats, f0 \in FewFloats,
       ap \in FewFloats, as_ \in FewFloats :
        PlainCall("IirFiltRrrf::create_prototype", <<order, fc, f0, ap, as_>>,
                  IirFiltCreatePrototype(order, fc, f0, ap, as_))

IirFilt_create_sos ==
    /\ \E alen \in {3 * k : k \in Lens} \cup {1},
       blen \in {3 * k : k \in Lens} \cup {1}, nsos \in Lens :
        PlainCall("IirFiltRrrf::create_sos", <<alen, blen, nsos>>,
                  IirFiltCreateSos(alen, blen, nsos))

FftFilt_create ==
    /\ \E hlen \in 0..(MaxLen + 1), n \in Lens :
        PlainCall("FftFiltRrrf::create", <<hlen, n>>, FftFiltCreate(hlen, n))

FirInterp_create ==
    /\ \E m \in 0..(MaxLen + 1), hlen \in 0..(MaxLen + 1) :
        PlainCall("FirInterpRrrf::create", <<m, hlen>>, FirInterpCreate(m, hlen))

Asgram_create ==
    /\ \E nfft \in 0..(MaxLen + 1) :
        PlainCall("AsgramCccf::create", <<nfft>>, AsgramCreate(nfft))

Firdespm_create ==
    /\ \E num_bands \in 0..MaxBands, bands \in 0..(2 * MaxBands + 1),
       des \in 0..MaxBands, weights \in 0..MaxBands, wtype \in -1..MaxBands :
        PlainCall("Firdespm::create", <<num_bands, bands, des, weights, wtype>>,
                  FirdespmCreate(num_bands, bands, des, weights, wtype))

Firdespm_run ==
    /\ \E num_bands \in 0..MaxBands, bands \in 0..(2 * MaxBands + 1),
       des \in 0..MaxBands, weights \in 0..MaxBands, wtype \in -1..MaxBands :
        PlainCall("Firdespm::run", <<num_bands, bands, des, weights, wtype>>,
                  FirdespmRun(num_bands, bands, des, weights, wtype))

Firdespm_create_callback ==
    /\ \E num_bands \in 0..MaxBands, bands \in 0..(2 * MaxBands + 1) :
        PlainCall("Firdespm::create_callback", <<num_bands, bands>>,
                  FirdespmCreateCallback(num_bands, bands))

CtorNext ==
    \/ Cvsd_create
    \/ FirFilt_create
    \/ IirFilt_create
    \/ IirFilt_create_lowpass
    \/ IirFilt_create_prototype
    \/ IirFilt_create_sos
    \/ FftFilt_create
    \/ FirInterp_create
    \/ Asgram_create
    \/ Firdespm_create
    \/ Firdespm_run
    \/ Firdespm_create_callback

CtorOps ==
    {"Cvsd::create", "FirFiltRrrf::create", "IirFiltRrrf::create",
     "IirFiltRrrf::create_lowpass", "IirFiltRrrf::create_prototype",
     "IirFiltRrrf::create_sos", "FftFiltRrrf::create", "FirInterpRrrf::create",
     "AsgramCccf::create", "Firdespm::create", "Firdespm::create_callback"}

(***************************************************************************)
(* CRC and FEC schemes and the operations that take one.                   *)
(***************************************************************************)
CrcSchemes ==
    <<"CRC_UNKNOWN", "CRC_NONE", "CRC_CHECKSUM", "CRC_8", "CRC_16", "CRC_24",
      "CRC_32">>

FecSchemes ==
    <<"UNKNOWN", "NONE", "REP3", "REP5", "HAMMING74", "HAMMING84", "HAMMING128",
      "GOLAY2412", "SECDED2216", "SECDED3932", "SECDED7264", "CONV_V27",
      "CONV_V29", "CONV_V39", "CONV_V615", "CONV_V27P23", "CONV_V27P34",
      "CONV_V27P45", "CONV_V27P56", "CONV_V27P67", "CONV_V27P78", "CONV_V29P23",
      "CONV_V29P34", "CONV_V29P45", "CONV_V29P56", "CONV_V29P67", "CONV_V29P78",
      "RS_M8">>

\* u8::from(scheme): the discriminant, counted from 0 in declaration order
CrcCode(s) == (CHOOSE i \in DOMAIN CrcSchemes : CrcSchemes[i] = s) - 1

FecCode(s) == (CHOOSE i \in DOMAIN FecSchemes : FecSchemes[i] = s) - 1

WithCrc(fn, s) == Ok(<<NativeCall(fn, <<CrcCode(s)>>, << >>)>>)

WithFec(fn, s) == Ok(<<NativeCall(fn, << >>, <<FecCode(s)>>)>>)

WithSchemes(fn, crc, fec0, fec1) ==
    Ok(<<NativeCall(fn, <<CrcCode(crc)>>, <<FecCode(fec0), FecCode(fec1)>>)>>)

\* CrcScheme::get_length
CrcGetLength(s) == WithCrc("crc_get_length", s)

\* CrcScheme::generate_key
CrcGenerateKey(s) ==
    IF s = "CRC_UNKNOWN" THEN Err ELSE WithCrc("crc_generate_key", s)

\* CrcScheme::append_key
CrcAppendKey(s) == WithCrc("crc_append_key", s)

\* CrcScheme::crc_validate_message
CrcValidateMessage(s) ==
    IF s = "CRC_UNKNOWN" THEN Err ELSE WithCrc("crc_validate_message", s)

\* CrcScheme::check_key
CrcCheckKey(s) ==
    IF s = "CRC_UNKNOWN" THEN Err ELSE WithCrc("crc_check_key", s)

\* CrcScheme::sizeof_key
CrcSizeofKey(s) ==
    IF s = "CRC_UNKNOWN" THEN Err ELSE WithCrc("crc_sizeof_key", s)

\* Fec::create
FecCreate(s) == WithFec("fec_create", s)

\* Fec::get_enc_msg_length
FecGetEncMsgLength(s) == WithFec("fec_get_enc_msg_length", s)

\* Fec::get_rate
FecGetRate(s) == WithFec("fec_get_rate", s)

\* Fec::recreate
FecRecreate(s) == WithFec("fec_recreate", s)

\* Packetizer::create
PacketizerCreate(crc, fec0, fec1) ==
    WithSchemes("packetizer_create", crc, fec0, fec1)

\* Packetizer::recreate
PacketizerRecreate(crc, fec0, fec1) ==
    WithSchemes("packetizer_recreate", crc, fec0, fec1)

\* Packetizer::compute_enc_msg_len
PacketizerComputeEncMsgLen(crc, fec0, fec1) ==
    WithSchemes("packetizer_compute_enc_msg_len", crc, fec0, fec1)

\* Packetizer::compute_dec_msg_len
PacketizerComputeDecMsgLen(crc, fec0, fec1) ==
    WithSchemes("packetizer_compute_dec_msg_len", crc, fec0, fec1)

CrcArgs == {CrcSchemes[i] : i \in DOMAIN CrcSchemes}

FecArgs == {FecSchemes[i] : i \in DOMAIN FecSchemes}

\* the schemes tried in the packetizer's three-scheme calls
PacketCrcArgs == {"CRC_UNKNOWN", "CRC_NONE", "CRC_32"}

PacketFecArgs == {"UNKNOWN", "NONE", "HAMMING74", "RS_M8"}

Crc_get_length ==
    /\ \E s \in CrcArgs, n \in Lens :
        PlainCall("CrcScheme::get_length", <<s, n>>, CrcGetLength(s))

Crc_generate_key ==
    /\ \E s \in CrcArgs, n \in Lens :
        PlainCall("CrcScheme::generate_key", <<s, n>>, CrcGenerateKey(s))

Crc_append_key ==
    /\ \E s \in CrcArgs, n \in Lens :
        PlainCall("CrcScheme::append_key", <<s, n>>, CrcAppendKey(s))

Crc_validate_message ==
    /\ \E s \in CrcArgs, n \in Lens :
        PlainCall("CrcScheme::crc_validate_message", <<s, n>>,
                  CrcValidateMessage(s))

Crc_check_key ==
    /\ \E s \in CrcArgs, n \in Lens :
        PlainCall("CrcScheme::check_key", <<s, n>>, CrcCheckKey(s))

Crc_sizeof_key ==
    /\ \E s \in CrcArgs :
        PlainCall("CrcScheme::sizeof_key", <<s, 0>>, CrcSizeofKey(s))

Fec_create ==
    /\ \E s \in FecArgs :
        PlainCall("Fec::create", <<s, 0>>, FecCreate(s))

Fec_get_enc_msg_length ==
    /\ \E s \in FecArgs, n \in Lens :
        PlainCall("Fec::get_enc_msg_length", <<s, n>>, FecGetEncMsgLength(s))

Fec_get_rate ==
    /\ \E s \in FecArgs :
        PlainCall("Fec::get_rate", <<s, 0>>, FecGetRate(s))

Fec_recreate ==
    /\ \E s \in FecArgs :
        PlainCall("Fec::recreate", <<s, 0>>, FecRecreate(s))

Packetizer_create ==
    /\ \E crc \in PacketCrcArgs, fec0 \in PacketFecArgs, fec1 \in PacketFecArgs,
       n \in Lens :
        PlainCall("Packetizer::create", <<crc, fec0, fec1, n>>,
                  PacketizerCreate(crc, fec0, fec1))

Packetizer_recreate ==
    /\ \E crc \in PacketCrcArgs, fec0 \in PacketFecArgs, fec1 \in PacketFecArgs,
       n \in Lens :
        PlainCall("Packetizer::recreate", <<crc, fec0, fec1, n>>,
                  PacketizerRecreate(crc, fec0, fec1))

Packetizer_compute_enc_msg_len ==
    /\ \E crc \in PacketCrcArgs, fec0 \in PacketFecArgs, fec1 \in PacketFecArgs,
       n \in Lens :
        PlainCall("Packetizer::compute_enc_msg_len", <<crc, fec0, fec1, n>>,
                  PacketizerComputeEncMsgLen(crc, fec0, fec1))

Packetizer_compute_dec_msg_len ==
    /\ \E crc \in PacketCrcArgs, fec0 \in PacketFecArgs, fec1 \in PacketFecArgs,
       n \in Lens :
        PlainCall("Packetizer::compute_dec_msg_len", <<crc, fec0, fec1, n>>,
                  PacketizerComputeDecMsgLen(crc, fec0, fec1))

SchemeNext ==
    \/ Crc_get_length
    \/ Crc_generate_key
    \/ Crc_append_key
    \/ Crc_validate_message
    \/ Crc_check_key
    \/ Crc_sizeof_key
    \/ Fec_create
    \/ Fec_get_enc_msg_length
    \/ Fec_get_rate
    \/ Fec_recreate
    \/ Packetizer_create
    \/ Packetizer_recreate
    \/ Packetizer_compute_enc_msg_len
    \/ Packetizer_compute_dec_msg_len

(***************************************************************************)
(* Constructors and setters that check a range with assert!.               *)
(***************************************************************************)
\* TvmpchCccf::create(n, std, tau)
TvmpchCreate(n, std, tau) ==
    IF ~(n > 0) THEN Panic
    ELSE IF ~FGt(std, F(0)) THEN Panic
    ELSE IF ~(FGt(tau, F(0)) /\ FLt(tau, F(100))) THEN Panic
    ELSE Created("tvmpch_cccf_create")

\* ChannelCccf::add_multipath(h)
AddMultipath(hlen) ==
    IF ~(hlen > 0 /\ hlen <= 1000) THEN Panic
    ELSE Created("channel_cccf_add_multipath")

\* ChannelCccf::add_multipath_random(len)
AddMultipathRandom(len) ==
    IF ~(len > 0 /\ len <= 1000) THEN Panic
    ELSE Created("channel_cccf_add_multipath")

\* ChannelCccf::add_shadowing(sigma, fd): assert! panics when its condition
\* is false
AddShadowing(sigma, fd) ==
    IF ~FLe(sigma, F(0)) THEN Panic
    ELSE IF ~(FLe(fd, F(0)) \/ FGe(fd, F(50))) THEN Panic
    ELSE Created("channel_cccf_add_shadowing")

\* Asgram*::set_scale(ref_, div)
AsgramSetScale(ref_, div) ==
    IF ~FGt(div, F(0)) THEN Panic ELSE Created("asgram_set_scale")

MultipathLens == {0, 1, 1000, 1001}

Tvmpch_create ==
    /\ \E n \in Lens, std \in FloatArgs, tau \in FloatArgs :
        PlainCall("TvmpchCccf::create", <<n, std, tau>>, TvmpchCreate(n, std, tau))

Channel_add_multipath ==
    /\ \E hlen \in MultipathLens :
        PlainCall("ChannelCccf::add_multipath", <<hlen>>, AddMultipath(hlen))

Channel_add_multipath_random ==
    /\ \E len \in MultipathLens :
        PlainCall("ChannelCccf::add_multipath_random", <<len>>,
                  AddMultipathRandom(len))

Asgram_set_scale ==
    /\ \E ref_ \in FloatArgs, div \in FloatArgs :
        PlainCall("AsgramCccf::set_scale", <<ref_, div>>, AsgramSetScale(ref_, div))

Channel_add_shadowing ==
    /\ \E sigma \in FloatArgs, fd \in FloatArgs :
        PlainCall("ChannelCccf::add_shadowing", <<sigma, fd>>,
                  AddShadowing(sigma, fd))

RangeNext ==
    \/ Tvmpch_create
    \/ Channel_add_multipath
    \/ Channel_add_multipath_random
    \/ Asgram_set_scale
    \/ Channel_add_shadowing

(***************************************************************************)
(* Filter design functions and constructors that take a cutoff frequency   *)
(* or a stop-band attenuation.                                             *)
(***************************************************************************)
\* Firdes::estimate_filter_len(df, as_)
FirdesEstimateFilterLen(df, as_) ==
    IF FGt(df, F(50)) \/ FLe(df, F(0)) THEN Err
    ELSE IF FLe(as_, F(0)) THEN Err
    ELSE Created("estimate_req_filter_len")

\* Firdes::estimate_filter_as(df, n)
FirdesEstimateFilterAs(df, n) ==
    IF FGt(df, F(50)) \/ FLe(df, F(0)) THEN Err
    ELSE Created("estimate_req_filter_As")

\* Firdes::notch(m, f0, as_)
FirdesNotch(m, f0, as_) ==
    IF m < 1 \/ m > 1000 THEN Err
    ELSE IF FLt(f0, F(-50)) \/ FGt(f0, F(50)) THEN Err
    ELSE IF FLe(as_, F(0)) THEN Err
    ELSE Created("liquid_firdes_notch")

\* Firdes::kaiser(n, fc, as_, mu)
FirdesKaiser(n, fc, as_, mu) ==
    IF FLt(mu, F(-50)) \/ FGt(mu, F(50)) THEN Err
    ELSE IF FLt(fc, F(0)) \/ FGt(fc, F(50)) THEN Err
    ELSE IF n = 0 THEN Err
    ELSE Created("liquid_firdes_kaiser")

\* Firdes::doppler(n, fd, k, theta)
FirdesDoppler(n, fd, k, theta) ==
    IF FLe(fd, F(0)) \/ FGt(fd, F(50)) THEN Err
    ELSE IF FLt(k, F(0)) THEN Err
    ELSE Created("liquid_firdes_doppler")

\* Firdespm::lowpass(fc, as_, mu, output)
FirdespmLowpass(fc, as_, mu, outlen) ==
    IF ~(outlen > 0) THEN Panic
    ELSE IF FLt(mu, F(-50)) \/ FGt(mu, F(50)) THEN Err
    ELSE IF FLt(fc, F(0)) \/ FGt(fc, F(50)) THEN Err
    ELSE Created("firdespm_lowpass")

\* FirFilt*::create_kaiser(n, fc, as_, mu)
FirFiltCreateKaiser(n, fc, as_, mu) ==
    IF n = 0 THEN Err ELSE Created("firfilt_rrrf_create_kaiser")

\* FirFilt*::create_notch(m, as_, f0)
FirFiltCreateNotch(m, as_, f0) ==
    IF m < 1 \/ m > 1000 THEN Err
    ELSE IF FLt(as_, F(0)) THEN Err
    ELSE IF FLt(f0, F(-50)) \/ FGt(f0, F(50)) THEN Err
    ELSE Created("firfilt_rrrf_create_notch")

\* FirInterp*::create_kaiser(M, m, as_)
FirInterpCreateKaiser(M, m, as_) ==
    IF M < 2 THEN Err
    ELSE IF m <= 0 THEN Err
    ELSE IF FLt(as_, F(0)) THEN Err
    ELSE Created("firinterp_rrrf_create_kaiser")

\* FirHilbt::create(m, as_)
FirHilbtCreate(m, as_) ==
    IF m < 2 THEN Err ELSE Created("firhilbf_create")

\* stop-band attenuations tried: negative, zero, positive, NaN
AsArgs == {F(-50), F(0), F(1), NaN}

\* fractional sample offsets tried: inside and outside [-0.5, 0.5]
MuArgs == {F(0), F(100)}

Firdes_estimate_filter_len ==
    /\ \E df \in FloatArgs, as_ \in AsArgs :
        PlainCall("Firdes::estimate_filter_len", <<df, as_>>,
                  FirdesEstimateFilterLen(df, as_))

Firdes_estimate_filter_as ==
    /\ \E df \in FloatArgs, n \in 0..1 :
        PlainCall("Firdes::estimate_filter_as", <<df, n>>,
                  FirdesEstimateFilterAs(df, n))

Firdes_notch ==
    /\ \E m \in 0..1, f0 \in MuArgs, as_ \in AsArgs :
        PlainCall("Firdes::notch", <<m, f0, as_>>, FirdesNotch(m, f0, as_))

Firdes_kaiser ==
    /\ \E n \in 0..1, fc \in FloatArgs, as_ \in AsArgs, mu \in MuArgs :
        PlainCall("Firdes::kaiser", <<n, fc, as_, mu>>,
                  FirdesKaiser(n, fc, as_, mu))

Firdes_doppler ==
    /\ \E n \in 0..1, fd \in FloatArgs, k \in {F(-50), F(0)} :
        PlainCall("Firdes::doppler", <<n, fd, k, F(0)>>,
                  FirdesDoppler(n, fd, k, F(0)))

Firdespm_lowpass ==
    /\ \E fc \in FloatArgs, as_ \in AsArgs, mu \in MuArgs, outlen \in 0..1 :
        PlainCall("Firdespm::lowpass", <<fc, as_, mu, outlen>>,
                  FirdespmLowpass(fc, as_, mu, outlen))

FirFilt_create_kaiser ==
    /\ \E n \in 0..1, as_ \in AsArgs, mu \in MuArgs :
        PlainCall("FirFiltRrrf::create_kaiser", <<n, F(1), as_, mu>>,
                  FirFiltCreateKaiser(n, F(1), as_, mu))

FirFilt_create_notch ==
    /\ \E m \in 0..1, as_ \in AsArgs, f0 \in MuArgs :
        PlainCall("FirFiltRrrf::create_notch", <<m, as_, f0>>,
                  FirFiltCreateNotch(m, as_, f0))

FirInterp_create_kaiser ==
    /\ \E M \in 0..2, m \in 0..1, as_ \in AsArgs :
        PlainCall("FirInterpRrrf::create_kaiser", <<M, m, as_>>,
                  FirInterpCreateKaiser(M, m, as_))

FirHilbt_create ==
    /\ \E m \in 0..2, as_ \in AsArgs :
        PlainCall("FirHilbt::create", <<m, as_>>, FirHilbtCreate(m, as_))

DesignNext ==
    \/ Firdes_estimate_filter_len
    \/ Firdes_estimate_filter_as
    \/ Firdes_notch
    \/ Firdes_kaiser
    \/ Firdes_doppler
    \/ Firdespm_lowpass
    \/ FirFilt_create_kaiser
    \/ FirFilt_create_notch
    \/ FirInterp_create_kaiser
    \/ FirHilbt_create
    \/ IirFilt_create_lowpass
    \/ IirFilt_create_prototype

(***************************************************************************)
(* Conversions between the wrapper's values and the native library's.      *)
(* A Complex32 is the record [re, im]; the foreign liquid_float_complex is *)
(* the struct laid out as <<re, im>>.                                      *)
(***************************************************************************)
ComplexArgs == [re : FloatArgs, im : FloatArgs]

\* impl ToCValue for Complex32 / impl From<Complex32> for LiquidComplex
ToCValue(x) == <<x.re, x.im>>

\* From<LiquidComplex> with the two fields read in the other order
FromLiquidComplexSwapped(c) == [re |-> c[2], im |-> c[1]]

\* impl From<LiquidComplex> for Complex32
FromLiquidComplex(c) == [re |-> c[1], im |-> c[2]]

Convert(op, x, c, y) ==
    /\ conv' = [op |-> op, x |-> x, c |-> c, y |-> y]
    /\ UNCHANGED <<call, blkKind, natSamples, yOut, cbVars, agcVars, hVars, cbkVars, pkVars, bVars, pmVars>>

to_c_value ==
    /\ \E x \in ComplexArgs : Convert("to_c_value", x, ToCValue(x), << >>)

LiquidComplex_from ==
    /\ \E x \in ComplexArgs : Convert("LiquidComplex::from", x, ToCValue(x), << >>)

Complex32_from ==
    /\ conv.op \in {"to_c_value", "LiquidComplex::from"}
    /\ Convert("Complex32::from", conv.x, conv.c, FromLiquidComplex(conv.c))

ComplexNext == to_c_value \/ LiquidComplex_from \/ Complex32_from

(***************************************************************************)
(* Enumerations and their integer codes.  FecSchemes and CrcSchemes are    *)
(* above; a variant's code is its discriminant.                            *)
(***************************************************************************)
FirdesFilterTypes ==
    <<"UNKNOWN", "KAISER", "PM", "RCOS", "FEXP", "FSECH", "FARCSECH", "ARKAISER",
      "RKAISER", "RRC", "HM3", "GMSKTX", "GMSKRX", "RFEXP", "RFSECH",
      "RFARCSECH15">>

\* enum FftType, with its explicit discriminants
FftTypes ==
    <<<<"BACKWARD", -1>>, <<"UNKNOWN", 0>>, <<"FORWARD", 1>>, <<"REDFT00", 10>>,
      <<"REDFT10", 11>>, <<"REDFT01", 12>>, <<"REDFT11", 13>>, <<"RODFT00", 20>>,
      <<"RODFT10", 21>>, <<"RODFT01", 22>>, <<"RODFT11", 23>>, <<"MDCT", 30>>,
      <<"IMDCT", 31>>>>

\* impl From<FirdesFilterType> for u8
FirdesCode(t) ==
    (CHOOSE i \in DOMAIN FirdesFilterTypes : FirdesFilterTypes[i] = t) - 1

\* impl From<FftType> for i8
FftCode(t) == FftTypes[CHOOSE i \in DOMAIN FftTypes : FftTypes[i][1] = t][2]

\* transmute::<i8, FftType>(value): the variant with that discriminant
FftOfCode(v) == FftTypes[CHOOSE i \in DOMAIN FftTypes : FftTypes[i][2] = v][1]

\* impl From<u8> for FecScheme
FecFromU8(value) ==
    IF value > 27 THEN "UNKNOWN" ELSE FecSchemes[value + 1]

\* impl From<u8> for CrcScheme
CrcFromU8(value) ==
    IF value > 6 THEN "CRC_UNKNOWN" ELSE CrcSchemes[value + 1]

\* the same with the last variant left out of the range test
FirdesFromU8Short(value) ==
    IF value > 14 THEN "UNKNOWN" ELSE FirdesFilterTypes[value + 1]

\* impl From<u8> for FirdesFilterType
FirdesFromU8(value) ==
    IF value > 15 THEN "UNKNOWN" ELSE FirdesFilterTypes[value + 1]

\* impl From<i8> for FftType: the match lets the defined codes through, its
\* last arm returns UNKNOWN
FftFromI8(value) ==
    IF value \in {-1, 0, 1} \cup (10..13) \cup (20..23) \cup {30, 31}
    THEN FftOfCode(value)
    ELSE "UNKNOWN"

EnumKinds == {"FecScheme", "CrcScheme", "FirdesFilterType", "FftType"}

U8 == 0..255

I8 == -128..127

\* the integers of the type the decoder takes
EnumInts(kind) == IF kind = "FftType" THEN I8 ELSE U8

EnumDecode(kind, value) ==
    CASE kind = "FecScheme" -> FecFromU8(value)
      [] kind = "CrcScheme" -> CrcFromU8(value)
      [] kind = "FirdesFilterType" -> FirdesFromU8(value)
      [] kind = "FftType" -> FftFromI8(value)

EnumEncode(kind, t) ==
    CASE kind = "FecScheme" -> FecCode(t)
      [] kind = "CrcScheme" -> CrcCode(t)
      [] kind = "FirdesFilterType" -> FirdesCode(t)
      [] kind = "FftType" -> FftCode(t)

EnumVariants(kind) ==
    CASE kind = "FecScheme" -> {FecSchemes[i] : i \in DOMAIN FecSchemes}
      [] kind = "CrcScheme" -> {CrcSchemes[i] : i \in DOMAIN CrcSchemes}
      [] kind = "FirdesFilterType" ->
            {FirdesFilterTypes[i] : i \in DOMAIN FirdesFilterTypes}
      [] kind = "FftType" -> {FftTypes[i][1] : i \in DOMAIN FftTypes}

EnumUnknown(kind) == IF kind = "CrcScheme" THEN "CRC_UNKNOWN" ELSE "UNKNOWN"

decode ==
    /\ \E kind \in EnumKinds :
          \E value \in EnumInts(kind) :
              Convert("decode", <<kind, value>>, EnumDecode(kind, value), << >>)

encode ==
    /\ conv.op = "decode"
    /\ Convert("encode", conv.x, conv.c, EnumEncode(conv.x[1], conv.c))

EnumNext == decode \/ encode

(***************************************************************************)
(* Forward error correction with the HAMMING74 scheme.  The codec is the   *)
(* native library's: every 4-bit half of a byte, high half first, becomes  *)
(* a 7-bit codeword, and the codewords are packed most significant bit     *)
(* first with the last byte padded by zeros.  The test of fec.rs fixes the *)
(* packing and five rows of the table: it expects 67 C6 69 73 to encode to *)
(* CC 3D E6 6C C6 47 C3.                                                   *)
(***************************************************************************)
MaxMsgLen == 2

hamming74_enc_gentab ==
    <<0, 105, 42, 67, 76, 37, 102, 15, 112, 25, 90, 51, 60, 85, 22, 127>>

Pow2(k) == 2 ^ k

\* bit i (0 is the most significant) of the width-bit value v
Bit(v, i, width) == (v \div Pow2(width - 1 - i)) % 2

\* the number of bit positions in which two 7-bit words differ
Distance(a, b) == Cardinality({i \in 0..6 : Bit(a, i, 7) # Bit(b, i, 7)})

\* ceiling of a / b
CeilDiv(a, b) == (a + b - 1) \div b

\* fec_get_enc_msg_length for HAMMING74: blocks of 4 bits become 7 bits
NativeFecGetEncMsgLength(n) == CeilDiv(CeilDiv(8 * n, 4) * 7, 8)

\* symbol s (from 0) of the message: the halves of its bytes, high first
Nibble(m, s) ==
    IF s % 2 = 0 THEN m[(s \div 2) + 1] \div 16 ELSE m[(s \div 2) + 1] % 16

\* bit j (from 0) of the coded bit stream of the first n bytes of m
CodedBit(m, n, j) ==
    IF j < 14 * n
    THEN Bit(hamming74_enc_gentab[Nibble(m, j \div 7) + 1], j % 7, 7)
    ELSE 0

\* bit j (from 0) of a byte buffer
BufferBit(buf, j) ==
    IF (j \div 8) + 1 \in DOMAIN buf THEN Bit(buf[(j \div 8) + 1], j % 8, 8) ELSE 0

\* fec_encode(q, n, msg_dec, msg_enc): the bytes written to msg_enc
NativeFecEncode(n, m) ==
    [i \in 1..CeilDiv(14 * n, 8) |->
        CodedBit(m, n, 8 * (i - 1)) * 128 + CodedBit(m, n, 8 * (i - 1) + 1) * 64
        + CodedBit(m, n, 8 * (i - 1) + 2) * 32 + CodedBit(m, n, 8 * (i - 1) + 3) * 16
        + CodedBit(m, n, 8 * (i - 1) + 4) * 8 + CodedBit(m, n, 8 * (i - 1) + 5) * 4
        + CodedBit(m, n, 8 * (i - 1) + 6) * 2 + CodedBit(m, n, 8 * (i - 1) + 7)]

\* received 7-bit symbol s (from 0) of the coded buffer
Received(enc, s) ==
    BufferBit(enc, 7 * s) * 64 + BufferBit(enc, 7 * s + 1) * 32
    + BufferBit(enc, 7 * s + 2) * 16 + BufferBit(enc, 7 * s + 3) * 8
    + BufferBit(enc, 7 * s + 4) * 4 + BufferBit(enc, 7 * s + 5) * 2
    + BufferBit(enc, 7 * s + 6)

\* the decoder's table: the 4 bits whose codeword is nearest to the symbol
hamming74_dec(r) ==
    CHOOSE d \in 0..15 :
        \A e \in 0..15 : Distance(hamming74_enc_gentab[d + 1], r)
                            <= Distance(hamming74_enc_gentab[e + 1], r)

\* fec_decode(q, n, msg_enc, msg_dec): the n bytes written to msg_dec
NativeFecDecode(n, enc) ==
    [i \in 1..n |-> hamming74_dec(Received(enc, 2 * (i - 1))) * 16
                    + hamming74_dec(Received(enc, 2 * (i - 1) + 1))]

\* Fec::encode(raw, encoded)
FecEncode(raw) == NativeFecEncode(Len(raw), raw)

\* the same with the length of the coded buffer as the message length
FecDecodeCodedLen(encoded, rawLen) == NativeFecDecode(Len(encoded), encoded)

\* Fec::decode(encoded, raw), raw being a buffer of rawLen bytes
FecDecode(encoded, rawLen) == NativeFecDecode(rawLen, encoded)

\* the coded buffer with bit j (from 0) inverted
FlipBit(enc, j) ==
    [enc EXCEPT ![(j \div 8) + 1] =
        IF Bit(@, j % 8, 8) = 1 THEN @ - Pow2(7 - (j % 8)) ELSE @ + Pow2(7 - (j % 8))]

TestMessage == <<103, 198, 105, 115>>

FewBytes == {0, 198, 255}

\* the bytes whose two halves are equal: every codeword in both positions
TwinBytes == {17 * a : a \in 0..15}

FecMessages ==
    {<<b>> : b \in TwinBytes} \cup {TestMessage}
    \cup UNION {[1..n -> FewBytes] : n \in (0..MaxMsgLen) \ {1}}

\* encode into a buffer of get_enc_msg_length(HAMMING74, len) bytes
Fec_encode ==
    /\ \E m \in FecMessages :
          Convert("fec_encode", m, FecEncode(m),
                  NativeFecGetEncMsgLength(Len(m)))

\* one bit of the coded buffer is inverted on the way
flip_bit ==
    /\ conv.op = "fec_encode"
    /\ \E j \in 0..(8 * Len(conv.c) - 1) :
          Convert("flip_bit", conv.x, FlipBit(conv.c, j), j)

\* decode into a buffer as long as the message
Fec_decode ==
    /\ conv.op \in {"fec_encode", "flip_bit"}
    /\ Convert("fec_decode", conv.x, conv.c, FecDecode(conv.c, Len(conv.x)))

FecNext == Fec_encode \/ flip_bit \/ Fec_decode

(***************************************************************************)
(* The firdespm callback.  The native design calls firdespm_callback_f     *)
(* while Firdespm::execute runs; firdespm_callback_f runs the user's       *)
(* closure inside catch.  The stack is followed frame by frame so that a   *)
(* panic can be seen travelling down it.                                   *)
(***************************************************************************)
MaxCallbacks == 3

\* the frames that belong to the native library
NativeFrames == {"raw::firdespm_execute"}

\* catch(f) calling f directly
CatchUnguarded == <<"catch", "closure">>

\* catch(f): f runs under panic::catch_unwind
Catch == <<"catch", "catch_unwind", "closure">>

\* firdespm_callback_f, up to the call of the user's closure
FirdespmCallbackF == <<"firdespm_callback_f">> \o Catch \o <<"callback">>

Top(stack) == stack[Len(stack)]

PopFrame(stack) == SubSeq(stack, 1, Len(stack) - 1)

\* the stack cut back to its innermost native frame
BackToNative(stack) ==
    SubSeq(stack, 1, CHOOSE i \in DOMAIN stack :
                        /\ stack[i] \in NativeFrames
                        /\ \A j \in DOMAIN stack : stack[j] \in NativeFrames => j <= i)

\* what the callback may return and write through desired and weight
CallbackRets == {-1, 0, 1}

CallbackWrites == {0, 1}

CbkStep(f, st, n, out) ==
    /\ frames' = f
    /\ status' = st
    /\ cbkCalls' = n
    /\ cbkOut' = out
    /\ UNCHANGED <<cbVars, agcVars, hVars, callVars, pkVars, bVars, pmVars>>

CbkInit ==
    /\ frames = << >>
    /\ status = "run"
    /\ cbkCalls = 0
    /\ cbkOut = [ret |-> 0, desired |-> 0, weight |-> 0]

\* Firdespm::execute: the assert on h.len(), then the native call
Firdespm_execute ==
    /\ frames = << >>
    /\ status = "run"
    /\ \E lenOk \in BOOLEAN :
          IF lenOk
          THEN CbkStep(<<"Firdespm::execute", "raw::firdespm_execute">>, "run",
                       0, cbkOut)
          ELSE CbkStep(<<"Firdespm::execute">>, "unwind", 0, cbkOut)

\* the native design evaluates the response at one more frequency
native_calls_back ==
    /\ status = "run"
    /\ frames # << >>
    /\ Top(frames) \in NativeFrames
    /\ cbkCalls < MaxCallbacks
    /\ CbkStep(frames \o FirdespmCallbackF, "run", cbkCalls + 1, cbkOut)

\* the closure returns: catch gives Some(ret), unwrap gives ret
callback_returns ==
    /\ status = "run"
    /\ frames # << >>
    /\ Top(frames) = "callback"
    /\ \E r \in CallbackRets, d \in CallbackWrites, wt \in CallbackWrites :
          CbkStep(BackToNative(frames), "run", cbkCalls,
                  [ret |-> r, desired |-> d, weight |-> wt])

\* the closure panics and the panic starts to unwind
callback_panics ==
    /\ status = "run"
    /\ frames # << >>
    /\ Top(frames) = "callback"
    /\ CbkStep(frames, "unwind", cbkCalls, cbkOut)

\* the closure panics in a build with panic = "abort"
callback_panics_abort ==
    /\ status = "run"
    /\ frames # << >>
    /\ Top(frames) = "callback"
    /\ CbkStep(frames, "abort", cbkCalls, cbkOut)

\* the panic leaves the innermost frame; under catch_unwind it stops, catch
\* takes its Err arm and calls std::process::exit(-1)
unwind ==
    /\ status = "unwind"
    /\ frames # << >>
    /\ Top(frames) \notin NativeFrames
    /\ IF Len(frames) = 1
       THEN CbkStep(<< >>, "dead", cbkCalls, cbkOut)
       ELSE IF Top(PopFrame(frames)) = "catch_unwind"
            THEN CbkStep(PopFrame(PopFrame(frames)), "exit", cbkCalls, cbkOut)
            ELSE CbkStep(PopFrame(frames), "unwind", cbkCalls, cbkOut)

\* the native design is done and Firdespm::execute returns
native_returns ==
    /\ status = "run"
    /\ frames # << >>
    /\ Top(frames) \in NativeFrames
    /\ CbkStep(<< >>, "run", cbkCalls, cbkOut)

CallbackNext ==
    \/ Firdespm_execute
    \/ native_calls_back
    \/ callback_returns
    \/ callback_panics
    \/ callback_panics_abort
    \/ unwind
    \/ native_returns

(***************************************************************************)
(* Packetizer: the wrapper keeps the decoded length n next to the handle;  *)
(* the encoded length k is the native object's.                            *)
(***************************************************************************)
MaxPkN == 2

\* crc_get_length of the schemes used here
NativeCrcLength(crc) == IF crc = "CRC_8" THEN 1 ELSE 0

\* fec_get_enc_msg_length of the schemes used here
NativeFecLength(fec, n) ==
    IF fec = "HAMMING74" THEN NativeFecGetEncMsgLength(n) ELSE n

\* packetizer_compute_enc_msg_len: the key is appended, then fec0, then fec1
NativePacketizerEncLen(n, crc, fec0, fec1) ==
    NativeFecLength(fec1, NativeFecLength(fec0, n + NativeCrcLength(crc)))

\* packetizer_create / packetizer_recreate: the object made
NativePacketizer(n, crc, fec0, fec1) ==
    [n |-> n, crc |-> crc, fec0 |-> fec0, fec1 |-> fec1,
     k |-> NativePacketizerEncLen(n, crc, fec0, fec1)]

NoPacketizer == [n |-> 0, crc |-> "none", fec0 |-> "none", fec1 |-> "none", k |-> 0]

\* what a Packetizer method leaves: the field n, the native object, the
\* outcome, the native functions called and the value returned
PkOut(n, nat, res, native, ret) ==
    [n |-> n, nat |-> nat, res |-> res, native |-> native, ret |-> ret]

\* Packetizer::create
PkCreate(n, crc, fec0, fec1) ==
    PkOut(n, NativePacketizer(n, crc, fec0, fec1), "Ok",
          <<"packetizer_create">>, 0)

\* recreate leaving the field n as it was
PkRecreateStaleN(n, crc, fec0, fec1) ==
    PkOut(pkN, NativePacketizer(n, crc, fec0, fec1), "Ok",
          <<"packetizer_recreate">>, 0)

\* Packetizer::recreate
PkRecreate(n, crc, fec0, fec1) ==
    PkOut(n, NativePacketizer(n, crc, fec0, fec1), "Ok",
          <<"packetizer_recreate">>, 0)

\* Packetizer::get_dec_msg_len
PkGetDecMsgLen == pkN

\* Packetizer::get_enc_msg_len
PkGetEncMsgLen == pkNat.k

\* encode, decode (factor 1) and decode_soft (factor 8): the two asserts,
\* the second after asking the native object for k, then the native call
PkCoded(fn, rawLen, pcktLen, factor) ==
    IF rawLen # PkGetDecMsgLen
    THEN PkOut(pkN, pkNat, "Panic", << >>, 0)
    ELSE IF pcktLen # factor * PkGetEncMsgLen
         THEN PkOut(pkN, pkNat, "Panic", <<"packetizer_get_enc_msg_len">>, 0)
         ELSE PkOut(pkN, pkNat, "Ok", <<"packetizer_get_enc_msg_len", fn>>, 0)

\* Packetizer::encode
PkEncode(rawLen, pcktLen) == PkCoded("packetizer_encode", rawLen, pcktLen, 1)

\* Packetizer::decode
PkDecode(rawLen, pcktLen) == PkCoded("packetizer_decode", rawLen, pcktLen, 1)

\* Packetizer::decode_soft
PkDecodeSoft(rawLen, pcktLen) ==
    PkCoded("packetizer_decode_soft", rawLen, pcktLen, 8)

PkCall(op, rawLen, pcktLen, out) ==
    /\ pkN' = out.n
    /\ pkNat' = out.nat
    /\ pkLast' = [op |-> op, rawLen |-> rawLen, pcktLen |-> pcktLen,
                 res |-> out.res, native |-> out.native, ret |-> out.ret]
    /\ UNCHANGED <<cbVars, agcVars, hVars, callVars, cbkVars, bVars, pmVars>>

PkInit ==
    /\ pkN = 0
    /\ pkNat = NoPacketizer
    /\ pkLast = [op |-> "none", rawLen |-> 0, pcktLen |-> 0, res |-> "Ok",
                 native |-> << >>, ret |-> 0]

PkLens == 0..MaxPkN

PkCrcs == {"CRC_NONE", "CRC_8"}

PkFecs == {"NONE", "HAMMING74"}

\* the largest encoded length of the objects made here
MaxPkK == NativePacketizerEncLen(MaxPkN, "CRC_8", "HAMMING74", "HAMMING74")

RawLens == 0..(MaxPkN + 1)

PcktLens == (0..(MaxPkK + 1)) \cup {8 * j : j \in 0..MaxPkK}

pk_create ==
    /\ pkNat = NoPacketizer
    /\ \E n \in PkLens, crc \in PkCrcs, fec0 \in PkFecs, fec1 \in PkFecs :
          PkCall("create", 0, 0, PkCreate(n, crc, fec0, fec1))

pk_recreate ==
    /\ pkNat # NoPacketizer
    /\ \E n \in PkLens, crc \in PkCrcs, fec0 \in PkFecs, fec1 \in PkFecs :
          PkCall("recreate", 0, 0, PkRecreate(n, crc, fec0, fec1))

pk_get_dec_msg_len ==
    /\ pkNat # NoPacketizer
    /\ PkCall("get_dec_msg_len", 0, 0,
              PkOut(pkN, pkNat, "Ok", << >>, PkGetDecMsgLen))

pk_encode ==
    /\ pkNat # NoPacketizer
    /\ \E rawLen \in RawLens, pcktLen \in PcktLens :
          PkCall("encode", rawLen, pcktLen, PkEncode(rawLen, pcktLen))

pk_decode ==
    /\ pkNat # NoPacketizer
    /\ \E rawLen \in RawLens, pcktLen \in PcktLens :
          PkCall("decode", rawLen, pcktLen, PkDecode(rawLen, pcktLen))

pk_decode_soft ==
    /\ pkNat # NoPacketizer
    /\ \E rawLen \in RawLens, pcktLen \in PcktLens :
          PkCall("decode_soft", rawLen, pcktLen, PkDecodeSoft(rawLen, pcktLen))

PkNext ==
    \/ pk_create
    \/ pk_recreate
    \/ pk_get_dec_msg_len
    \/ pk_encode
    \/ pk_decode
    \/ pk_decode_soft

(***************************************************************************)
(* Access to a wrapper.  Each method is listed with the receiver its       *)
(* signature declares and with whether its native call changes the native  *)
(* object.  Holders borrow the object under the language's rule: any       *)
(* number of shared borrows, or one exclusive borrow.                      *)
(***************************************************************************)
Method(obj, name, recv, changes) ==
    [obj |-> obj, name |-> name, recv |-> recv, changes |-> changes]

AgcMethods ==
    {Method("Agc", "reset", "&mut self", TRUE),
     Method("Agc", "set_bandwidth", "&mut self", TRUE),
     Method("Agc", "get_bandwidth", "&self", FALSE),
     Method("Agc", "squelch_set_threshold", "&self", TRUE),
     Method("Agc", "squelch_set_timeout", "&self", TRUE),
     Method("Agc", "execute", "&self", TRUE),
     Method("Agc", "execute_block", "&self", TRUE)}

FirFiltMethods ==
    {Method("FirFilt", "reset", "&self", TRUE),
     Method("FirFilt", "set_scale", "&mut self", TRUE),
     Method("FirFilt", "push", "&self", TRUE),
     Method("FirFilt", "write", "&self", TRUE),
     Method("FirFilt", "execute_block", "&self", TRUE)}

AutocorrMethods ==
    {Method("Autocorr", "reset", "&mut self", TRUE),
     Method("Autocorr", "push", "&self", TRUE),
     Method("Autocorr", "execute_block", "&self", TRUE),
     Method("Autocorr", "get_energy", "&self", FALSE)}

CbufferMethods ==
    {Method("Cbuffer", "reset", "&mut self", TRUE),
     Method("Cbuffer", "release", "&mut self", TRUE),
     Method("Cbuffer", "push", "&mut self", TRUE),
     Method("Cbuffer", "write", "&mut self", TRUE),
     Method("Cbuffer", "pop", "&mut self", TRUE),
     Method("Cbuffer", "read", "&self", FALSE)}

Methods == AgcMethods \cup FirFiltMethods \cup AutocorrMethods \cup CbufferMethods

ObjKinds == {m.obj : m \in Methods}

Holders == {1, 2}

NoAccess == [h \in Holders |-> "none"]

\* the access a receiver asks of the caller
Allows(recv, acc) ==
    IF recv = "&mut self" THEN acc = "mut" ELSE acc \in {"shared", "mut"}

BStep(kind, access, drove, last) ==
    /\ borrow' = [kind |-> kind, access |-> access, drove |-> drove]
    /\ bLast' = last
    /\ UNCHANGED <<cbVars, agcVars, hVars, callVars, cbkVars, pkVars, pmVars>>

BInit ==
    /\ borrow = [kind |-> "none", access |-> NoAccess, drove |-> {}]
    /\ bLast = [holder |-> 0, method |-> Method("none", "none", "&self", FALSE),
                access |-> "none"]

\* the object is created by its owner
object_create ==
    /\ borrow.kind = "none"
    /\ \E k \in ObjKinds : BStep(k, NoAccess, {}, bLast)

\* the owner drops it; nothing borrows it then
object_drop ==
    /\ borrow.kind # "none"
    /\ borrow.access = NoAccess
    /\ BStep("none", NoAccess, {}, bLast)

\* a holder takes a shared borrow: no exclusive borrow is live
borrow_shared ==
    /\ borrow.kind # "none"
    /\ \E h \in Holders :
          /\ borrow.access[h] = "none"
          /\ \A g \in Holders : borrow.access[g] # "mut"
          /\ BStep(borrow.kind, [borrow.access EXCEPT ![h] = "shared"],
                   borrow.drove, bLast)

\* a holder takes the exclusive borrow: no other borrow is live
borrow_mut ==
    /\ borrow.kind # "none"
    /\ borrow.access = NoAccess
    /\ \E h \in Holders :
          BStep(borrow.kind, [borrow.access EXCEPT ![h] = "mut"],
                borrow.drove, bLast)

\* a holder's borrow ends
borrow_end ==
    /\ \E h \in Holders :
          /\ borrow.access[h] # "none"
          /\ BStep(borrow.kind, [borrow.access EXCEPT ![h] = "none"],
                   borrow.drove \ {h}, bLast)

\* a holder calls a method its access allows
method_call ==
    /\ \E h \in Holders, m \in Methods :
          /\ m.obj = borrow.kind
          /\ Allows(m.recv, borrow.access[h])
          /\ BStep(borrow.kind, borrow.access,
                   IF m.changes THEN borrow.drove \cup {h} ELSE borrow.drove,
                   [holder |-> h, method |-> m, access |-> borrow.access[h]])

BorrowNext ==
    \/ object_create
    \/ object_drop
    \/ borrow_shared
    \/ borrow_mut
    \/ borrow_end
    \/ method_call

(***************************************************************************)
(* The life of a Firdespm and of the box holding its callback.  The field  *)
(* callback is null after create and the pointer of the box after          *)
(* create_callback; drop destroys the native object and then rebuilds a    *)
(* Box from the field, whatever it holds.                                  *)
(***************************************************************************)
PmObject(state, how, callback, native, box) ==
    [state |-> state, how |-> how, callback |-> callback, native |-> native,
     box |-> box]

NoFirdespm == PmObject("none", "none", "null", "none", "none")

\* what a call leaves: the object, the result, the native calls in order, the
\* boxes freed, whether a Box was rebuilt from null, how the process fared
PmOut(obj, res, calls, frees, fromNull, outcome) ==
    [obj |-> obj, res |-> res, calls |-> calls, frees |-> frees,
     fromNull |-> fromNull, outcome |-> outcome]

\* Firdespm::create: callback: std::ptr::null_mut()
PmCreate(num_bands, bands, des, weights, wtype) ==
    IF ~ValidateInputsLength(num_bands, bands, des, weights, wtype)
    THEN PmOut(NoFirdespm, "Err", << >>, 0, FALSE, "ok")
    ELSE PmOut(PmObject("held", "create", "null", "live", "none"), "Ok",
               <<"firdespm_create">>, 0, FALSE, "ok")

\* Firdespm::create_callback: callback: Box::into_raw(Box::new(userdata))
PmCreateCallback(num_bands, bands) ==
    IF num_bands = 0 \/ num_bands # bands \div 2
    THEN PmOut(NoFirdespm, "Err", << >>, 0, FALSE, "ok")
    ELSE PmOut(PmObject("held", "create_callback", "box", "live", "alloc"), "Ok",
               <<"firdespm_create_callback">>, 0, FALSE, "ok")

\* Firdespm::execute: the native design calls back when it has a callback
PmExecute(obj) ==
    PmOut(obj, "Ok",
          IF obj.how = "create_callback"
          THEN <<"firdespm_execute", "firdespm_callback_f">>
          ELSE <<"firdespm_execute">>,
          0, FALSE, "ok")

\* what the process may do once a Box has been rebuilt from a null pointer
\* and dropped: undefined behaviour
NullBoxOutcomes == {"ok", "crash"}

\* impl Drop: firdespm_destroy(self.inner); let _ = Box::from_raw(self.callback)
PmDrop(obj, outcome) ==
    IF obj.callback = "null"
    THEN PmOut([obj EXCEPT !.state = "dropped", !.native = "dead"], "Ok",
               <<"firdespm_destroy", "Box::from_raw">>, 0, TRUE, outcome)
    ELSE PmOut([obj EXCEPT !.state = "dropped", !.native = "dead",
                           !.box = "freed"], "Ok",
               <<"firdespm_destroy", "Box::from_raw">>, 1, FALSE, "ok")

PmCall(op, args, out) ==
    /\ pm' = [op |-> op, args |-> args, obj |-> out.obj, res |-> out.res,
              calls |-> out.calls, frees |-> out.frees,
              fromNull |-> out.fromNull, outcome |-> out.outcome]
    /\ UNCHANGED <<cbVars, agcVars, hVars, callVars, cbkVars, pkVars, bVars>>

PmInit ==
    pm = [op |-> "none", args |-> << >>, obj |-> NoFirdespm, res |-> "Ok",
          calls |-> << >>, frees |-> 0, fromNull |-> FALSE, outcome |-> "ok"]

pm_create ==
    /\ pm.obj.state # "held"
    /\ pm.outcome = "ok"
    /\ \E num_bands \in 0..MaxBands, bands \in 0..(2 * MaxBands + 1),
          des \in 0..MaxBands, weights \in 0..MaxBands, wtype \in -1..MaxBands :
          PmCall("create", <<num_bands, bands, des, weights, wtype>>,
                 PmCreate(num_bands, bands, des, weights, wtype))

pm_create_callback ==
    /\ pm.obj.state # "held"
    /\ pm.outcome = "ok"
    /\ \E num_bands \in 0..MaxBands, bands \in 0..(2 * MaxBands + 1) :
          PmCall("create_callback", <<num_bands, bands>>,
                 PmCreateCallback(num_bands, bands))

pm_execute ==
    /\ pm.obj.state = "held"
    /\ PmCall("execute", pm.args, PmExecute(pm.obj))

pm_drop ==
    /\ pm.obj.state = "held"
    /\ \E outcome \in NullBoxOutcomes :
          PmCall("drop", pm.args, PmDrop(pm.obj, outcome))

PmNext == pm_create \/ pm_create_callback \/ pm_execute \/ pm_drop

(***************************************************************************)
(* The specifications: each runs one state machine and leaves the others   *)
(* in their initial state.                                                 *)
(***************************************************************************)
Init == CbInit /\ AgcInit /\ HInit /\ CallInit /\ CbkInit /\ PkInit /\ BInit /\ PmInit

InitCbuffer == Init /\ blkKind = AutocorrKind

InitOne == InitCbuffer /\ cbMax = 1

InitBlock == Init /\ cbMax = 1

SpecCbuffer == InitCbuffer /\ [][CbNext]_vars

SpecAgc == InitOne /\ [][AgcNext]_vars

SpecHandle == InitOne /\ [][HNext]_vars

SpecBlock == InitBlock /\ [][BlockNext]_vars

SpecCtor == InitOne /\ [][CtorNext]_vars

SpecScheme == InitOne /\ [][SchemeNext]_vars

SpecRange == InitOne /\ [][RangeNext]_vars

SpecDesign == InitOne /\ [][DesignNext]_vars

SpecComplex == InitOne /\ [][ComplexNext]_vars

SpecEnum == InitOne /\ [][EnumNext]_vars

SpecFec == InitOne /\ [][FecNext]_vars

SpecCallback == InitOne /\ [][CallbackNext]_vars

SpecPacketizer == InitOne /\ [][PkNext]_vars

SpecBorrow == InitOne /\ [][BorrowNext]_vars

SpecFirdespm == InitOne /\ [][PmNext]_vars

(***************************************************************************)
(* C1: a push (or a write of k samples) succeeds exactly when the samples  *)
(* fit in the buffer (it holds at most max_size - k elements); a rejected  *)
(* call returns an error and leaves the stored elements unchanged; an      *)
(* accepted call stores every sample (none is dropped) and the buffer      *)
(* never holds more than max_size elements.                                *)
(***************************************************************************)
C1_PushWriteContract ==
    cbLast.op \in {"push", "write"} =>
        LET fits == Len(cbLast.pre) + Len(cbLast.buf) <= cbMax IN
        /\ (cbLast.res = "Ok") <=> fits
        /\ cbLast.res = "Ok" => cbElems = cbLast.pre \o cbLast.buf
        /\ cbLast.res # "Ok" => cbLast.res = "Err" /\ cbElems = cbLast.pre
        /\ Len(cbElems) <= cbMax

(***************************************************************************)
(* C7: while the wrapper is locked (after lock(), before the next          *)
(* unlock()), a configuration setter is rejected or changes nothing: the   *)
(* getters return what they returned before the call.                      *)
(***************************************************************************)
AgcSetters ==
    {"set_bandwidth", "set_gain", "set_scale", "set_signal_level", "set_rssi"}

C7_LockedSetterIsNoOp ==
    (agcLast.op \in AgcSetters /\ agcLast.preLocked) =>
        \/ agcLast.res = "Err"
        \/ AgcGetters(agcNat) = AgcGetters(agcLast.pre)

(***************************************************************************)
(* C8: the wrapper's is_locked flag (printed by Debug as "locked: yes/no") *)
(* equals the native object's lock state.                                  *)
(***************************************************************************)
C8_LockFlagInSync ==
    AgcDebugLocked(agcLocked) = (IF agcNat.locked THEN "yes" ELSE "no")

(***************************************************************************)
(* C10: set_bandwidth(b) is accepted exactly when 0 <= b <= 1; set_gain,   *)
(* set_scale and set_signal_level exactly when the argument is > 0; a      *)
(* rejected setter returns InvalidValue and leaves every getter unchanged; *)
(* an accepted one makes the matching getter return the value set.         *)
(***************************************************************************)
AgcInRange(op, x) ==
    IF op = "set_bandwidth" THEN FLe(F(0), x) /\ FLe(x, F(100)) ELSE FGt(x, F(0))

AgcMatchingGetter(op, nat) ==
    CASE op = "set_bandwidth" -> AgcGetBandwidth(nat)
      [] op = "set_gain" -> AgcGetGain(nat)
      [] op = "set_scale" -> AgcGetScale(nat)
      [] op = "set_signal_level" -> AgcGetSignalLevel(nat)

C10_SetterRanges ==
    agcLast.op \in {"set_bandwidth", "set_gain", "set_scale", "set_signal_level"} =>
        /\ (agcLast.res = "Ok") <=> AgcInRange(agcLast.op, agcLast.arg)
        /\ agcLast.res # "Ok" =>
              /\ agcLast.res = "Err" /\ agcLast.err = "InvalidValue"
              /\ AgcGetters(agcNat) = AgcGetters(agcLast.pre)
        /\ agcLast.res = "Ok" => AgcMatchingGetter(agcLast.op, agcNat) = agcLast.arg

(***************************************************************************)
(* C2: every handle the native library returned is destroyed exactly once: *)
(* never twice, never passed to a native call after its destruction, and   *)
(* none is left alive once its wrapper has been dropped.                   *)
(***************************************************************************)
C2_DestroyedExactlyOnce ==
    /\ \A h \in Handles : hDestroys[h] <= 1
    /\ hMisuse = {}
    /\ w.state # "held" => \A h \in Handles : hState[h] # "live"

(***************************************************************************)
(* C9: when recreate returns, the wrapper holds exactly the handle the     *)
(* native recreate call returned, and a held wrapper never holds a         *)
(* destroyed handle.                                                       *)
(***************************************************************************)
C9_RecreateInstallsReturnedHandle ==
    /\ (hLast.op = "recreate" /\ hLast.res = "Ok") => w.inner = hLast.ret
    /\ w.state = "held" => hState[w.inner] = "live"

(***************************************************************************)
(* C3: a block operation called with an input slice and an output slice of *)
(* different lengths is rejected before any native call: no native call is *)
(* made, the native object has processed nothing more and the output slice *)
(* is as the caller passed it.                                             *)
(***************************************************************************)
C3_LengthMismatchRejected ==
    (call.op \in BlockKinds \cup {AutocorrKind}
        /\ Len(call.args[1]) # Len(call.args[2])) =>
            /\ call.res # "Ok"
            /\ call.native = << >>
            /\ natSamples = call.pre
            /\ yOut = call.args[2]

C3_Witness ==
    /\ call.op \in BlockKinds
    /\ Len(call.args[1]) = MaxBlock
    /\ Len(call.args[2]) = 1
    /\ call.res = "Panic"
    /\ call.pre > 0

(***************************************************************************)
(* C4: a fallible constructor that returns an error has made no native     *)
(* call (no native object exists) and has allocated no callback box.       *)
(***************************************************************************)
C4_ErrorBeforeNativeCreate ==
    (call.op \in CtorOps /\ call.res = "Err") =>
        /\ call.native = << >>
        /\ ~call.box

C4_Witness ==
    /\ call.op = "Firdespm::create_callback"
    /\ call.args[1] = 1
    /\ call.args[2] = 0
    /\ call.res = "Err"

(***************************************************************************)
(* C5: an operation that takes a CRC or FEC scheme never hands the native  *)
(* library the code of CRC_UNKNOWN or of FecScheme::UNKNOWN.               *)
(***************************************************************************)
C5_UnknownSchemeRejected ==
    \A i \in DOMAIN call.native :
        /\ \A j \in DOMAIN call.native[i].crc :
              call.native[i].crc[j] # CrcCode("CRC_UNKNOWN")
        /\ \A j \in DOMAIN call.native[i].fec :
              call.native[i].fec[j] # FecCode("UNKNOWN")

(***************************************************************************)
(* C6: a documented range violation (TvmpchCccf::create with n = 0,        *)
(* std <= 0 or tau outside (0, 1); add_multipath with 0 or more than 1000  *)
(* coefficients; Asgram set_scale with div <= 0) comes back to the caller  *)
(* as an error value.                                                      *)
(***************************************************************************)
C6_RangeViolationIsTypedError ==
    /\ (call.op = "TvmpchCccf::create"
          /\ (call.args[1] = 0 \/ FLe(call.args[2], F(0))
                \/ FLe(call.args[3], F(0)) \/ FGe(call.args[3], F(100))))
          => call.res = "Err"
    /\ (call.op \in {"ChannelCccf::add_multipath",
                     "ChannelCccf::add_multipath_random"}
          /\ (call.args[1] = 0 \/ call.args[1] > 1000))
          => call.res = "Err"
    /\ (call.op = "AsgramCccf::set_scale" /\ FLe(call.args[2], F(0)))
          => call.res = "Err"

(***************************************************************************)
(* C11: an operation that validates a cutoff / normalized frequency        *)
(* documented as lying in (0, 0.5) accepts it only inside the open         *)
(* interval: 0, 0.5 and every value outside come back as an error, with no *)
(* native call made.                                                       *)
(***************************************************************************)
C11_Cutoff ==
    CASE call.op \in {"Firdes::kaiser", "Firdes::doppler",
                      "IirFiltRrrf::create_lowpass",
                      "IirFiltRrrf::create_prototype"} -> call.args[2]
      [] OTHER -> call.args[1]

C11_CutoffInOpenInterval ==
    (call.op \in {"Firdes::kaiser", "Firdespm::lowpass",
                  "Firdes::estimate_filter_len", "Firdes::estimate_filter_as",
                  "Firdes::doppler", "IirFiltRrrf::create_lowpass",
                  "IirFiltRrrf::create_prototype"}
        /\ ~(FGt(C11_Cutoff, F(0)) /\ FLt(C11_Cutoff, F(50)))) =>
            /\ call.res = "Err"
            /\ call.native = << >>

(***************************************************************************)
(* C12: a constructor or design function that takes a stop-band            *)
(* attenuation rejects a zero or negative attenuation: it returns an error *)
(* and makes no native call.                                               *)
(***************************************************************************)
C12_Attenuation ==
    CASE call.op \in {"FirFiltRrrf::create_notch", "Firdes::estimate_filter_len",
                      "FirHilbt::create"} -> call.args[2]
      [] call.op = "IirFiltRrrf::create_prototype" -> call.args[5]
      [] OTHER -> call.args[3]

C12_AttenuationPositive ==
    (call.op \in {"FirFiltRrrf::create_kaiser", "FirFiltRrrf::create_notch",
                  "FirInterpRrrf::create_kaiser", "Firdes::kaiser",
                  "Firdes::notch", "Firdes::estimate_filter_len",
                  "FirHilbt::create", "IirFiltRrrf::create_prototype"}
        /\ FLe(C12_Attenuation, F(0))) =>
            /\ call.res = "Err"
            /\ call.native = << >>

(***************************************************************************)
(* C13: converting a complex sample to the foreign struct and back gives   *)
(* the sample again: re and im are unchanged and not swapped, and the      *)
(* foreign struct holds re first, im second.                               *)
(***************************************************************************)
C13_ComplexRoundTrip ==
    /\ conv.op \in {"to_c_value", "LiquidComplex::from"} =>
          conv.c[1] = conv.x.re /\ conv.c[2] = conv.x.im
    /\ conv.op = "Complex32::from" =>
          conv.y = conv.x /\ conv.y.re = conv.x.re /\ conv.y.im = conv.x.im

C13_Witness ==
    /\ conv.op = "Complex32::from"
    /\ conv.x.re = F(-50)
    /\ conv.x.im = NaN
    /\ conv.y.im = NaN

(***************************************************************************)
(* C14: for FecScheme, CrcScheme, FftType and FirdesFilterType, decoding   *)
(* an integer gives the variant whose code is that integer when there is   *)
(* one and the UNKNOWN variant otherwise, and encoding the decoded variant *)
(* of a defined code gives the code back.                                  *)
(***************************************************************************)
C14_Defined(kind, value) ==
    \E t \in EnumVariants(kind) : EnumEncode(kind, t) = value

C14_EnumCodes ==
    /\ conv.op = "decode" =>
          IF C14_Defined(conv.x[1], conv.x[2])
          THEN EnumEncode(conv.x[1], conv.c) = conv.x[2]
          ELSE conv.c = EnumUnknown(conv.x[1])
    /\ (conv.op = "encode" /\ C14_Defined(conv.x[1], conv.x[2])) =>
          conv.y = conv.x[2]

C14_Witness ==
    /\ conv.op = "encode"
    /\ conv.x = <<"FirdesFilterType", 15>>
    /\ conv.c = "RFARCSECH15"
    /\ conv.y = 15

(***************************************************************************)
(* C15: with HAMMING74, decoding the encoded message gives the message     *)
(* back, also when one bit of the encoded bytes was inverted, and the      *)
(* encoded bytes are get_enc_msg_length(HAMMING74, len) many.              *)
(***************************************************************************)
C15_HammingRoundTrip ==
    /\ conv.op = "fec_decode" => conv.y = conv.x
    /\ conv.op = "fec_encode" => Len(conv.c) = conv.y

\* the message of the test of fec.rs, decoded after bit 5 of its first
\* encoded byte was inverted (C8 for CC)
C15_Witness ==
    /\ conv.op = "fec_decode"
    /\ conv.x = TestMessage
    /\ conv.c = <<200, 61, 230, 108, 198, 71, 195>>
    /\ conv.y = TestMessage

(***************************************************************************)
(* C16: a panic raised in the user's firdespm callback never unwinds into  *)
(* a native frame: while a panic is unwinding, the innermost frame is not  *)
(* a native one, and the panic ends in catch under firdespm_callback_f.    *)
(***************************************************************************)
C16_PanicStopsAtBoundary ==
    /\ (status = "unwind" /\ frames # << >>) => Top(frames) \notin NativeFrames
    /\ status = "exit" =>
          /\ Top(frames) = "catch"
          /\ Top(PopFrame(frames)) = "firdespm_callback_f"

C16_Witness ==
    /\ status = "exit"
    /\ cbkCalls = 2
    /\ frames = <<"Firdespm::execute", "raw::firdespm_execute",
                  "firdespm_callback_f", "catch">>

(***************************************************************************)
(* C17: after any creates and recreates of a Packetizer, encode, decode    *)
(* and decode_soft reach the native coder only when raw has the n of the   *)
(* latest create or recreate and pckt has the object's k bytes (8 k for    *)
(* decode_soft); they panic without that native call otherwise; and        *)
(* get_dec_msg_len returns the n of the latest create or recreate.         *)
(***************************************************************************)
C17_CodedOps ==
    [encode |-> "packetizer_encode", decode |-> "packetizer_decode",
     decode_soft |-> "packetizer_decode_soft"]

C17_Fits ==
    /\ pkLast.rawLen = pkNat.n
    /\ pkLast.pcktLen = (IF pkLast.op = "decode_soft" THEN 8 ELSE 1) * pkNat.k

C17_PacketizerLengths ==
    /\ pkLast.op \in DOMAIN C17_CodedOps =>
          IF C17_Fits
          THEN /\ pkLast.res = "Ok"
               /\ pkLast.native[Len(pkLast.native)] = C17_CodedOps[pkLast.op]
          ELSE /\ pkLast.res = "Panic"
               /\ \A i \in DOMAIN pkLast.native :
                     pkLast.native[i] # C17_CodedOps[pkLast.op]
    /\ pkLast.op = "get_dec_msg_len" => pkLast.ret = pkNat.n
    /\ pkN = pkNat.n

\* with n = 2, CRC_8 and HAMMING74 twice (k = 11), decode_soft of 88 soft
\* bits is forwarded
C17_Witness ==
    /\ pkLast.op = "decode_soft"
    /\ pkNat.n = 2
    /\ pkNat.k = 11
    /\ pkLast.rawLen = 2
    /\ pkLast.pcktLen = 88
    /\ pkLast.res = "Ok"

(***************************************************************************)
(* C18: every method that changes the native object is called with         *)
(* exclusive access, and no two holders with borrows live at the same time *)
(* have both changed the object.                                           *)
(***************************************************************************)
C18_ChangesNeedExclusiveAccess ==
    /\ bLast.method.changes => bLast.access = "mut"
    /\ Cardinality(borrow.drove) <= 1

(***************************************************************************)
(* C19: release(n) succeeds and removes the n oldest elements when n is at *)
(* most the number of elements stored; otherwise it returns the            *)
(* EmptyBuffer error, makes no native call and leaves the buffer as it was.*)
(***************************************************************************)
C19_ReleaseWithinStored ==
    cbLast.op = "release" =>
        IF cbLast.n <= Len(cbLast.pre)
        THEN /\ cbLast.res = "Ok"
             /\ cbElems = DropFirst(cbLast.pre, cbLast.n)
        ELSE /\ cbLast.res = "Err"
             /\ cbLast.err = ErrEmptyBuffer
             /\ ~cbLast.called
             /\ cbElems = cbLast.pre

(***************************************************************************)
(* C20: pop returns None, without a native call, exactly when the buffer   *)
(* holds no element; otherwise it removes and returns the oldest element.  *)
(***************************************************************************)
C20_PopOldestOrNone ==
    cbLast.op = "pop" =>
        IF Len(cbLast.pre) = 0
        THEN /\ cbLast.res = "None"
             /\ ~cbLast.called
             /\ cbElems = cbLast.pre
        ELSE /\ cbLast.res = "Some"
             /\ cbLast.ret = <<Head(cbLast.pre)>>
             /\ cbElems = Tail(cbLast.pre)

(***************************************************************************)
(* C21: read() returns the elements stored, oldest first, and asks the     *)
(* native buffer for no more elements than it holds; space_available() is  *)
(* max_size less the number of elements stored.                            *)
(***************************************************************************)
C21_ReadReturnsStored ==
    /\ cbLast.op = "read" =>
          /\ cbLast.ret = cbLast.pre
          /\ cbLast.preNum <= NativeSize(cbLast.pre)
    /\ cbLast.op = "space_available" =>
          cbLast.ret = <<cbMax - Len(cbLast.pre)>>

(***************************************************************************)
(* C22: the wrapper's counter num_elements equals the number of elements   *)
(* the native buffer holds.                                                *)
(***************************************************************************)
C22_CounterIsSize == cbNum = NativeSize(cbElems)

(***************************************************************************)
(* C23: ChannelCccf::add_shadowing(sigma, fd) makes its native call        *)
(* exactly when sigma > 0 and 0 < fd < 0.5, and otherwise rejects the      *)
(* arguments before the native call.                                       *)
(***************************************************************************)
C23_ShadowingRange ==
    call.op = "ChannelCccf::add_shadowing" =>
        IF FGt(call.args[1], F(0)) /\ FGt(call.args[2], F(0))
              /\ FLt(call.args[2], F(50))
        THEN /\ call.res = "Ok"
             /\ call.native = <<Plain("channel_cccf_add_shadowing")>>
        ELSE /\ call.res # "Ok"
             /\ call.native = << >>

(***************************************************************************)
(* C24: Firdespm::create, run and create_callback make their native call   *)
(* only when bands has 2 * num_bands entries with num_bands > 0 and, for   *)
(* create and run, des, weights and wtype (when given) have num_bands      *)
(* entries each; any other lengths give an error and no native call.       *)
(***************************************************************************)
C24_BandsFit == call.args[1] > 0 /\ call.args[2] = 2 * call.args[1]

C24_AllFit ==
    /\ C24_BandsFit
    /\ call.args[3] = call.args[1]
    /\ call.args[4] = call.args[1]
    /\ call.args[5] >= 0 => call.args[5] = call.args[1]

C24_FirdespmLengths ==
    /\ call.op \in {"Firdespm::create", "Firdespm::run"} =>
          IF C24_AllFit
          THEN call.res = "Ok" /\ call.native # << >>
          ELSE call.res = "Err" /\ call.native = << >>
    /\ call.op = "Firdespm::create_callback" =>
          IF C24_BandsFit
          THEN call.res = "Ok" /\ call.native # << >>
          ELSE call.res = "Err" /\ call.native = << >>

(***************************************************************************)
(* C25: a FirFilt recreate that fails its validation leaves the filter as  *)
(* it was: the caller still holds the wrapper and its native object is     *)
(* live, not destroyed.                                                    *)
(***************************************************************************)
C25_FailedRecreateKeepsFilter ==
    (hLast.op = "recreate" /\ hLast.kind = "FirFilt" /\ hLast.res = "Err") =>
        /\ w.state = "held"
        /\ w.inner = hLast.old
        /\ hState[hLast.old] = "live"
        /\ hDestroys[hLast.old] = 0

(***************************************************************************)
(* C26: dropping a Firdespm frees the callback box exactly once when it    *)
(* was built with create_callback, and frees nothing and rebuilds no Box   *)
(* from a null pointer when it was built with create; the box is freed     *)
(* only after the native object is destroyed, and is allocated whenever a  *)
(* live native object has a callback.                                      *)
(***************************************************************************)
C26_CallbackBoxFreedOnce ==
    /\ (pm.op = "drop" /\ pm.obj.how = "create_callback") =>
          /\ pm.frees = 1
          /\ pm.obj.box = "freed"
          /\ pm.calls = <<"firdespm_destroy", "Box::from_raw">>
    /\ (pm.op = "drop" /\ pm.obj.how = "create") =>
          /\ pm.frees = 0
          /\ ~pm.fromNull
          /\ pm.outcome = "ok"
    /\ (pm.obj.native = "live" /\ pm.obj.how = "create_callback") =>
          pm.obj.box = "alloc"

====
